---- MODULE Spec2Model ----
(***************************************************************************)
(* A model of the heatsink OpenGL wrapper library: the object lifetime     *)
(* core (object<V>, shader, program), the buffer subsystem (buffers,       *)
(* views, mappings over a driver-side byte store) and program uniforms     *)
(* (type checked updates and array views).                                 *)
(*                                                                         *)
(* The native driver is the environment.  It hands out names, keeps the    *)
(* per-name storage and the current binding, and ignores (with a GL        *)
(* error) every call whose arguments do not fit its own state.             *)
(*                                                                         *)
(* An operation ends in one of three outcomes: "ok", "error" (a            *)
(* heatsink::exception reached the caller) or "assert" (an assert() of the *)
(* handler failed; the process is gone and nothing runs afterwards).       *)
(***************************************************************************)
EXTENDS Integers, Naturals, Sequences, FiniteSets, TLC

VARIABLES
    objs,       \* lifetime core: slot -> owning instance (object<V>, shader, program)
    glNames,    \* lifetime core: driver name -> [gen, deletes]
    zeroFreed,  \* lifetime core: a destroy primitive was called with name 0
    lastLife,   \* lifetime core: the last operation, its outcome, what it destructed
    bufs,       \* buffers: slot -> buffer or buffer::view instance
    maps,       \* buffers: the buffer::mapping<GLubyte> instance, if any
    gl,         \* buffers: driver state, [names: name -> buffer object, bound: name]
    lastBuf,    \* buffers: the last operation and its outcome
    unis,       \* uniforms: slot -> uniform or uniform::view instance
    prog,       \* uniforms: the linked program's active uniform and its values
    lastUni,    \* uniforms: the last operation and its outcome
    linker,     \* program linking: shaders, the program object, the program instance
    texs,       \* textures: the texture and texture::view instances
    fmts,       \* formats: the pixel_format / vertex_format under construction
    traits,     \* compile-time traits evaluated and attribute instances
    mapper      \* mappings: two buffers, the mapping<T> instances, their driver

lifeVars == <<objs, glNames, zeroFreed, lastLife>>
bufVars == <<bufs, maps, gl, lastBuf>>
uniVars == <<unis, prog, lastUni>>
laterVars == <<linker, texs, fmts, traits, mapper>>
vars == <<lifeVars, bufVars, uniVars, laterVars>>

\* Each subsystem is a specification of its own; the others stand still.
notLifeVars == <<bufVars, uniVars, laterVars>>
notBufVars == <<lifeVars, uniVars, laterVars>>
notUniVars == <<lifeVars, bufVars, laterVars>>

(***************************************************************************)
(* Bounds of the lifetime model.                                           *)
(***************************************************************************)
MaxInst == 2
MaxNames == 3

Slots == 1..MaxInst
Names == 1..MaxNames

\* The kinds that are instantiated: two object<V> kinds, one with a default
\* instance and one without, and the two classes that repeat object's
\* lifetime protocol by hand.
ObjectKinds == {"GL_BUFFER", "GL_TEXTURE"}
Kinds == ObjectKinds \cup {"shader", "program"}

\* name_traits<V>::is_default_constructible
IsDefaultConstructible(k) ==
    k \in {"GL_FRAMEBUFFER", "GL_TEXTURE", "GL_TRANSFORM_FEEDBACK"}

\* name_traits<V>::has_target
HasTarget(k) ==
    k \in {"GL_BUFFER", "GL_FRAMEBUFFER", "GL_QUERY", "GL_TEXTURE", "GL_TRANSFORM_FEEDBACK"}

\* The bind target a kind is constructed with (one mode per kind).
ModeOf(k) == IF HasTarget(k) THEN "GL_MODE" ELSE "GL_NONE"

Dead == [alive |-> FALSE]

Live(o) == o.alive

\* object<V>::is_valid, shader::is_valid, program::is_valid
IsValid(o) ==
    IF o.kind \in {"shader", "program"}
    THEN o.name # 0
    ELSE LET is_default == IsDefaultConstructible(o.kind) /\ o.name = 0
         IN  o.name # 0 \/ is_default

\* The first name the driver has not generated yet (0 when it has run out).
FreshName ==
    IF \E n \in Names : ~glNames[n].gen
    THEN CHOOSE n \in Names : ~glNames[n].gen /\ \A m \in Names : m < n => glNames[m].gen
    ELSE 0

\* glGen*/glCreate*: the driver records a generated name.
GlGenerate(g, n) == [g EXCEPT ![n] = [gen |-> TRUE, deletes |-> 0]]

\* glDelete*: the driver records one more delete of a name.
GlDelete(g, n) == [g EXCEPT ![n].deletes = @ + 1]

\* name_traits<V>::destroy is only reached with a nonzero name.
DestroyGuard(name) == name # 0

\* ~object, ~shader, ~program: the driver state after the destructor ran.
DtorNames(o, g) == IF DestroyGuard(o.name) THEN GlDelete(g, o.name) ELSE g

\* Whether the destructor handed name 0 to the destroy primitive.
DtorZero(o) == DestroyGuard(o.name) /\ o.name = 0

ResetKeepsName(o) == [o EXCEPT !.origin = "moved"]

\* object<V>::reset (and the `other.m_name = 0` of shader and program).
Reset(o) ==
    IF o.kind \in ObjectKinds
    THEN [o EXCEPT !.name = 0, !.target = "GL_NONE", !.origin = "moved"]
    ELSE [o EXCEPT !.name = 0, !.origin = "moved"]

LifeInit ==
    /\ objs = [i \in Slots |-> Dead]
    /\ glNames = [n \in Names |-> [gen |-> FALSE, deletes |-> 0]]
    /\ zeroFreed = FALSE
    /\ lastLife = [op |-> "none", status |-> "ok", was |-> "none", freed |-> FALSE]

Did(op, status) == [op |-> op, status |-> status, was |-> "none", freed |-> FALSE]

\* The instance a constructor leaves behind when it returns normally.
Built(k, name, origin) ==
    [alive |-> TRUE, kind |-> k, name |-> name,
     target |-> IF name = 0 THEN "GL_NONE" ELSE ModeOf(k), origin |-> origin]

\* object<V>::object(GLenum mode): name::create() throws when the driver
\* yields no name; otherwise the instance owns the fresh name.
ConstructObject(i, k) ==
    /\ UNCHANGED notLifeVars
    /\ ~Live(objs[i])
    /\ k \in ObjectKinds
    /\ \E created \in BOOLEAN :
          IF created /\ FreshName # 0
          THEN /\ glNames' = GlGenerate(glNames, FreshName)
               /\ objs' = [objs EXCEPT ![i] = Built(k, FreshName, "fresh")]
               /\ lastLife' = Did("construct", "ok")
          ELSE /\ lastLife' = Did("construct", "error")
               /\ UNCHANGED <<objs, glNames>>
    /\ UNCHANGED zeroFreed

\* What is left of a shader or program whose constructor body threw after
\* the name was created: no destructor runs for the object under
\* construction, so no instance exists and the driver keeps the name.
FailedConstruction(g) == g

\* shader::shader(src, stage, from): the name comes from glCreateShader in
\* the initializer list, compile() runs in the body and throws when the
\* compile status is not GL_TRUE.
ConstructShader(i) ==
    /\ UNCHANGED notLifeVars
    /\ ~Live(objs[i])
    /\ FreshName # 0
    /\ \E compiled \in BOOLEAN :
          IF compiled
          THEN /\ glNames' = GlGenerate(glNames, FreshName)
               /\ objs' = [objs EXCEPT ![i] = Built("shader", FreshName, "fresh")]
               /\ lastLife' = Did("construct", "ok")
          ELSE /\ glNames' = FailedConstruction(GlGenerate(glNames, FreshName))
               /\ objs' = objs
               /\ lastLife' = Did("construct", "error")
    /\ UNCHANGED zeroFreed

\* program::program(names, from): glCreateProgram, a throw when it yields 0,
\* then link(), which throws when the link status is not GL_TRUE.
ConstructProgram(i) ==
    /\ UNCHANGED notLifeVars
    /\ ~Live(objs[i])
    /\ \E created \in BOOLEAN, linked \in BOOLEAN :
          IF created /\ FreshName # 0
          THEN IF linked
               THEN /\ glNames' = GlGenerate(glNames, FreshName)
                    /\ objs' = [objs EXCEPT ![i] = Built("program", FreshName, "fresh")]
                    /\ lastLife' = Did("construct", "ok")
               ELSE /\ glNames' = FailedConstruction(GlGenerate(glNames, FreshName))
                    /\ objs' = objs
                    /\ lastLife' = Did("construct", "error")
          ELSE /\ lastLife' = Did("construct", "error")
               /\ UNCHANGED <<objs, glNames>>
    /\ UNCHANGED zeroFreed

\* object<V>::object(std::nullptr_t): name 0, target GL_NONE.
ConstructNull(i, k) ==
    /\ UNCHANGED notLifeVars
    /\ ~Live(objs[i])
    /\ k \in ObjectKinds
    /\ objs' = [objs EXCEPT ![i] = Built(k, 0, "null")]
    /\ lastLife' = Did("null", "ok")
    /\ UNCHANGED <<glNames, zeroFreed>>

\* object(object&&), shader(shader&&), program(program&&): the new instance
\* takes the name (and target), the source is reset.
MoveConstruct(i, j) ==
    /\ UNCHANGED notLifeVars
    /\ Live(objs[i])
    /\ ~Live(objs[j])
    /\ objs' = [objs EXCEPT ![j] = [objs[i] EXCEPT !.origin = "owner"],
                            ![i] = Reset(objs[i])]
    /\ lastLife' = Did("move", "ok")
    /\ UNCHANGED <<glNames, zeroFreed>>

\* operator=(object&&) and its copies in shader and program: destroy the
\* name held, take the source's name, reset the source.  With i = j the
\* reset is the last write.
MoveAssign(i, j) ==
    /\ UNCHANGED notLifeVars
    /\ Live(objs[i])
    /\ Live(objs[j])
    /\ objs[i].kind = objs[j].kind
    /\ glNames' = DtorNames(objs[j], glNames)
    /\ zeroFreed' = (zeroFreed \/ DtorZero(objs[j]))
    /\ LET taken == [objs EXCEPT ![j] = [objs[i] EXCEPT !.origin = "owner"]]
       IN  objs' = [taken EXCEPT ![i] = Reset(taken[i])]
    /\ lastLife' = [op |-> "assign", status |-> "ok", was |-> objs[j].origin,
                     freed |-> DestroyGuard(objs[j].name)]

\* ~object, ~shader, ~program.
Destruct(i) ==
    /\ UNCHANGED notLifeVars
    /\ Live(objs[i])
    /\ glNames' = DtorNames(objs[i], glNames)
    /\ zeroFreed' = (zeroFreed \/ DtorZero(objs[i]))
    /\ objs' = [objs EXCEPT ![i] = Dead]
    /\ lastLife' = [op |-> "destruct", status |-> "ok", was |-> objs[i].origin,
                     freed |-> DestroyGuard(objs[i].name)]

\* The buffer subsystem before its first operation.
LifeIdleBuf ==
    /\ bufs = <<>>
    /\ maps = [alive |-> FALSE]
    /\ gl = [names |-> <<>>, bound |-> 0]
    /\ lastBuf = [op |-> "none", status |-> "ok"]

LifeNext ==
    \/ \E i \in Slots, k \in ObjectKinds : ConstructObject(i, k)
    \/ \E i \in Slots : ConstructShader(i)
    \/ \E i \in Slots : ConstructProgram(i)
    \/ \E i \in Slots, k \in ObjectKinds : ConstructNull(i, k)
    \/ \E i, j \in Slots : MoveConstruct(i, j)
    \/ \E i, j \in Slots : MoveAssign(i, j)
    \/ \E i \in Slots : Destruct(i)

\* The uniforms before their first operation.
UniIdle ==
    /\ unis = <<>>
    /\ prog = [count |-> 0]
    /\ lastUni = [op |-> "none", status |-> "ok"]

\* Program linking, textures and formats before their first operation.
LaterIdle ==
    /\ linker = [op |-> "none"]
    /\ texs = [op |-> "none"]
    /\ fmts = [op |-> "none"]
    /\ traits = [op |-> "none"]
    /\ mapper = [op |-> "none"]

LifeStart == LifeInit /\ LifeIdleBuf /\ UniIdle /\ LaterIdle

SpecLife == LifeStart /\ [][LifeNext]_vars

(***************************************************************************)
(* Claims about the lifetime core.                                         *)
(***************************************************************************)

\* The live instances that hold name n.
Owners(n) == {i \in Slots : Live(objs[i]) /\ objs[i].name = n}

\* C1 (as stated): every name the driver has generated is, until it is
\* released, owned by exactly one live instance; it is passed to the destroy
\* primitive at most once and no instance holds it afterwards, so it has been
\* released exactly once when no instance is left; the destroy primitive is
\* never called with name 0.
C1_ExclusiveOwnership ==
    /\ ~zeroFreed
    /\ \A n \in Names :
          glNames[n].gen =>
             /\ glNames[n].deletes <= 1
             /\ glNames[n].deletes = 0 => Cardinality(Owners(n)) = 1
             /\ glNames[n].deletes = 1 => Owners(n) = {}

\* C3: for a kind without a default instance a freshly constructed object has
\* a nonzero name and is valid, a moved-from object has name 0 and is not
\* valid, and destructing a moved-from object reaches no destroy primitive.
C3_State ==
    \A i \in Slots :
       (Live(objs[i]) /\ objs[i].kind \in ObjectKinds
                      /\ ~IsDefaultConstructible(objs[i].kind)) =>
          /\ objs[i].origin = "fresh" => (objs[i].name # 0 /\ IsValid(objs[i]))
          /\ objs[i].origin = "moved" => (objs[i].name = 0 /\ ~IsValid(objs[i]))

C3_Step ==
    \A i \in Slots :
       (/\ Live(objs[i]) /\ ~Live(objs'[i])
        /\ objs[i].kind \in ObjectKinds
        /\ ~IsDefaultConstructible(objs[i].kind)
        /\ objs[i].origin = "moved") =>
          (glNames' = glNames /\ zeroFreed' = zeroFreed)

C3_FreshValidMovedInvalid == [](C3_State) /\ [][C3_Step]_vars

\* C3 witness: a moved-from GL_BUFFER object has been destructed while the
\* instance that took its name is alive.
C3_Witness ==
    /\ lastLife.op = "destruct" /\ lastLife.was = "moved" /\ ~lastLife.freed
    /\ \E j \in Slots : /\ Live(objs[j]) /\ objs[j].kind = "GL_BUFFER"
                        /\ objs[j].origin = "owner" /\ objs[j].name # 0

\* C8 (as stated): for every object kind an instance constructed from the
\* null marker is not valid, and destructing it reaches no destroy primitive.
C8_NullIsInvalid ==
    /\ \A i \in Slots :
          (Live(objs[i]) /\ objs[i].origin = "null") => ~IsValid(objs[i])
    /\ (lastLife.op = "destruct" /\ lastLife.was = "null") => ~lastLife.freed

\* C13 (as stated): when the construction of a shader or a program reports an
\* error, the name that was created for it has been released before the
\* error reaches the caller: no generated name is left that was never
\* deleted and that no instance owns.
C13_FailedConstructionReleases ==
    (lastLife.op = "construct" /\ lastLife.status = "error") =>
       \A n \in Names :
          (glNames[n].gen /\ Owners(n) = {}) => glNames[n].deletes >= 1


(***************************************************************************)
(* The buffer subsystem: buffer, buffer::view, buffer::mapping<GLubyte>    *)
(* over the driver's buffer objects.                                       *)
(***************************************************************************)

\* Bounds of the buffer model.
MaxBufs == 3         \* slots for buffer and view instances
MaxBufNames == 1     \* names the driver hands out
MaxAlloc == 2        \* the largest size passed to immutable() and set()
SizeBits == 3        \* width of std::size_t in the model
MaxUnwinds == 1      \* failed view constructions followed per buffer object

BufSlots == 1..MaxBufs
BufNames == 1..MaxBufNames
SizeMod == 2 ^ SizeBits
SizeT == 0..(SizeMod - 1)

\* Bytes: 0 is what fresh storage holds, Fill is what callers write.
Fill == {1}
Bytes == {0} \cup Fill

\* Byte ranges a caller passes to set, update and clear.
Ranges == UNION {[1..n -> Fill] : n \in 0..MaxAlloc}

\* Offsets and sizes a caller passes to make_view: the small values and the
\* values at the top of std::size_t.
ViewArgs == (0..MaxAlloc) \cup {SizeMod - 1}

\* std::size_t addition.
Plus(a, b) == (a + b) % SizeMod

\* The value a std::size_t takes as GLintptr or GLsizeiptr.
AsSigned(x) == IF x >= SizeMod \div 2 THEN x - SizeMod ELSE x

NoBuf == [alive |-> FALSE]
NoMap == [alive |-> FALSE]

(***************************************************************************)
(* The driver.  A name is live from glGenBuffers to glDeleteBuffers.       *)
(* Binding a name that is not live is an error that leaves the binding     *)
(* alone (core profile); every data call acts on the bound buffer object   *)
(* and is ignored when its range does not fit that object's store.         *)
(***************************************************************************)
GlLive(g, n) == n # 0 /\ g.names[n].gen /\ g.names[n].deletes = 0

GlFresh(g) ==
    IF \E n \in BufNames : ~g.names[n].gen
    THEN CHOOSE n \in BufNames : ~g.names[n].gen /\ \A m \in BufNames : m < n => g.names[m].gen
    ELSE 0

NoStore == [gen |-> FALSE, deletes |-> 0, store |-> <<>>, fixed |-> FALSE, mapped |-> FALSE]

glGenBuffers(g, n) == [g EXCEPT !.names[n] = [NoStore EXCEPT !.gen = TRUE]]

\* glDeleteBuffers: the store goes with the name; a deleted name that was
\* bound is unbound.
glDeleteBuffers(g, n) ==
    [g EXCEPT !.names[n] = [@ EXCEPT !.deletes = @ + 1, !.store = <<>>, !.mapped = FALSE],
              !.bound = IF @ = n THEN 0 ELSE @]

glBindBuffer(g, n) == IF n = 0 \/ GlLive(g, n) THEN [g EXCEPT !.bound = n] ELSE g

Zeros(n) == [k \in 1..n |-> 0]

\* glBufferData(target, size, data, usage); data = <<>> stands for nullptr.
glBufferData(g, size, data) ==
    IF g.bound = 0 \/ g.names[g.bound].fixed \/ AsSigned(size) < 0
    THEN g
    ELSE [g EXCEPT !.names[g.bound].store = IF data = <<>> THEN Zeros(size) ELSE data,
                   !.names[g.bound].mapped = FALSE]

\* glBufferStorage(target, size, nullptr, access)
glBufferStorage(g, size) ==
    IF g.bound = 0 \/ g.names[g.bound].fixed \/ AsSigned(size) <= 0
    THEN g
    ELSE [g EXCEPT !.names[g.bound].store = Zeros(size), !.names[g.bound].fixed = TRUE]

\* Whether [offset, offset + size) lies in the bound buffer object's store.
GlInRange(g, offset, size) ==
    /\ g.bound # 0
    /\ AsSigned(offset) >= 0
    /\ AsSigned(size) >= 0
    /\ offset + size <= Len(g.names[g.bound].store)

\* glBufferSubData(target, offset, size, data)
glBufferSubData(g, offset, size, data) ==
    IF GlInRange(g, offset, size)
    THEN [g EXCEPT !.names[g.bound].store =
             [k \in 1..Len(@) |-> IF k > offset /\ k <= offset + size THEN data[k - offset] ELSE @[k]]]
    ELSE g

\* glClearBufferSubData(target, internal_format, offset, size, ...) with a
\* pixel whose bytes are all v.
glClearBufferSubData(g, offset, size, v) ==
    IF GlInRange(g, offset, size)
    THEN [g EXCEPT !.names[g.bound].store =
             [k \in 1..Len(@) |-> IF k > offset /\ k <= offset + size THEN v ELSE @[k]]]
    ELSE g

\* glInvalidateBufferSubData: the contents may be discarded; the store and
\* its size stay.
glInvalidateBufferSubData(g, offset, size) == g

\* glMapBufferRange(target, offset, length, access): a pointer to the mapped
\* bytes, or a null pointer (no such store range, an empty length, or a
\* buffer that is mapped already).
NullPointer == [ptr |-> FALSE, bytes |-> <<>>]

glMapBufferRange(g, offset, length) ==
    IF GlInRange(g, offset, length) /\ length > 0 /\ ~g.names[g.bound].mapped
    THEN [ptr |-> TRUE, bytes |-> [k \in 1..length |-> g.names[g.bound].store[offset + k]]]
    ELSE NullPointer

glUnmapBuffer(g) ==
    IF g.bound # 0 THEN [g EXCEPT !.names[g.bound].mapped = FALSE] ELSE g

(***************************************************************************)
(* The wrapper.  A buffer record holds m_name, m_immutable, m_base and     *)
(* m_size; `view` tells a buffer::view from a buffer.  `root` (the slot of *)
(* the buffer a view was made from, through any chain of views), `made`    *)
(* and `size0` (how and with what size the buffer was created) are history *)
(* the claims refer to; no operation reads them.                           *)
(***************************************************************************)
Done(op, status) == [op |-> op, status |-> status]

Running == lastBuf.status # "assert"

\* object<GL_BUFFER>::is_valid
BufValid(b) == b.name # 0

IsImmutableNever(b) == FALSE

\* buffer::is_immutable
IsImmutable(b) == b.immutable

\* buffer::is_empty
IsEmpty(b) == b.size = 0

\* Data calls are made on buffer objects that are not mapped: the driver
\* refuses them on a mapped buffer object, and the caller holds a mapping
\* only for the span of its own reads and writes.
Unmapped(b) == b.alive => (b.name = 0 \/ ~gl.names[b.name].mapped)

\* object<GL_BUFFER>::bind
Bind(b, g) == glBindBuffer(g, b.name)

\* ~object<GL_BUFFER> run on an instance (or base subobject) holding `name`.
ObjectDtor(name, g) == IF DestroyGuard(name) THEN glDeleteBuffers(g, name) ELSE g

\* object<GL_BUFFER>::reset
ViewReset(b) == [b EXCEPT !.name = 0]

\* buffer::basic_view::~basic_view: reset() clears the name, then the base
\* destructor runs on what is left.
ViewDtor(b, g) == ObjectDtor(ViewReset(b).name, g)

\* The bounds test of buffer::buffer(const buffer&, offset, size), in
\* std::size_t arithmetic.
ViewOutOfBounds(b, offset, size) == Plus(offset, size) > b.size

\* When that constructor throws, its object<GL_BUFFER> base, a copy of the
\* parent holding the parent's name, is already built and is destructed
\* during unwinding; ~basic_view has not been entered.
ViewCtorUnwind(b, g) == ObjectDtor(b.name, g)

\* The view the constructor builds.
ViewOf(b, offset, size) ==
    [alive |-> TRUE, view |-> TRUE, name |-> b.name, immutable |-> b.immutable,
     base |-> Plus(b.base, offset), size |-> size,
     root |-> b.root, made |-> b.made, size0 |-> b.size0]

\* Where the next instance is put: the first slot not in use (0 when all
\* are).  A slot is only the identity of an instance.
FreeSlot ==
    IF \E j \in BufSlots : ~bufs[j].alive
    THEN CHOOSE j \in BufSlots : ~bufs[j].alive /\ \A k \in BufSlots : k < j => bufs[k].alive
    ELSE 0

BufInit ==
    /\ bufs = [i \in BufSlots |-> NoBuf]
    /\ maps = NoMap
    /\ gl = [names |-> [n \in BufNames |-> NoStore], bound |-> 0]
    /\ lastBuf = Done("none", "ok")

\* A failed assert aborts the process: its instances are gone and the driver
\* releases the context's buffer objects.
Abort(op) ==
    /\ bufs' = [i \in BufSlots |-> NoBuf]
    /\ maps' = NoMap
    /\ gl' = [names |-> [n \in BufNames |-> NoStore], bound |-> 0]
    /\ lastBuf' = Done(op, "assert")

\* buffer::buffer(GLenum): a name from name_traits<GL_BUFFER>::create, which
\* throws when the driver yields none; no storage.
NewBuffer(i) ==
    /\ Running
    /\ UNCHANGED notBufVars
    /\ i = FreeSlot
    /\ IF GlFresh(gl) # 0
       THEN /\ gl' = glGenBuffers(gl, GlFresh(gl))
            /\ bufs' = [bufs EXCEPT ![i] =
                           [alive |-> TRUE, view |-> FALSE, name |-> GlFresh(gl),
                            immutable |-> FALSE, base |-> 0, size |-> 0,
                            root |-> i, made |-> "mutable", size0 |-> 0]]
            /\ lastBuf' = Done("buffer", "ok")
       ELSE /\ lastBuf' = Done("buffer", "error")
            /\ UNCHANGED <<bufs, gl>>
    /\ UNCHANGED maps

\* buffer::immutable(target, size, access): throws for size 0, else the
\* private constructor creates the name, binds it and calls glBufferStorage.
Immutable(i, size) ==
    /\ Running
    /\ UNCHANGED notBufVars
    /\ i = FreeSlot
    /\ IF size = 0 \/ GlFresh(gl) = 0
       THEN /\ lastBuf' = Done("immutable", "error")
            /\ UNCHANGED <<bufs, gl>>
       ELSE LET b == [alive |-> TRUE, view |-> FALSE, name |-> GlFresh(gl),
                      immutable |-> TRUE, base |-> 0, size |-> size,
                      root |-> i, made |-> "immutable", size0 |-> size]
            IN  /\ gl' = glBufferStorage(Bind(b, glGenBuffers(gl, GlFresh(gl))), size)
                /\ bufs' = [bufs EXCEPT ![i] = b]
                /\ lastBuf' = Done("immutable", "ok")
    /\ UNCHANGED maps

\* buffer::set(size, usage)
Set(i, size) ==
    /\ Running
    /\ UNCHANGED notBufVars
    /\ Unmapped(bufs[i])
    /\ bufs[i].alive /\ ~bufs[i].view
    /\ IF ~(BufValid(bufs[i]) /\ bufs[i].base = 0)
       THEN Abort("set")
       ELSE IF IsImmutable(bufs[i])
       THEN /\ lastBuf' = Done("set", "error")
            /\ UNCHANGED <<bufs, gl, maps>>
       ELSE LET b == [bufs[i] EXCEPT !.size = size]
            IN  /\ bufs' = [bufs EXCEPT ![i] = b]
                /\ gl' = IF size # 0 THEN glBufferData(Bind(b, gl), size, <<>>)
                                     ELSE Bind(b, gl)
                /\ lastBuf' = Done("set", "ok")
                /\ UNCHANGED maps

\* buffer::set(begin, end, usage)
SetRange(i, data) ==
    /\ Running
    /\ UNCHANGED notBufVars
    /\ Unmapped(bufs[i])
    /\ bufs[i].alive /\ ~bufs[i].view
    /\ IF ~(BufValid(bufs[i]) /\ ~IsImmutable(bufs[i])) \/ bufs[i].base # 0 \/ Len(data) = 0
       THEN Abort("set_range")
       ELSE LET b == [bufs[i] EXCEPT !.size = Len(data)]
            IN  /\ bufs' = [bufs EXCEPT ![i] = b]
                /\ gl' = glBufferData(Bind(b, gl), Len(data), data)
                /\ lastBuf' = Done("set_range", "ok")
                /\ UNCHANGED maps

\* The length test of buffer::update.
UpdateFits(b, data) == Len(data) = b.size

\* buffer::update(begin, end)
Update(i, data) ==
    /\ Running
    /\ UNCHANGED notBufVars
    /\ Unmapped(bufs[i])
    /\ bufs[i].alive
    /\ IF ~(BufValid(bufs[i]) /\ ~IsEmpty(bufs[i])) \/ ~UpdateFits(bufs[i], data)
       THEN Abort("update")
       ELSE /\ gl' = glBufferSubData(Bind(bufs[i], gl), bufs[i].base, bufs[i].size, data)
            /\ lastBuf' = Done("update", "ok")
            /\ UNCHANGED <<bufs, maps>>

\* Internal formats passed to clear.
ClearFormats == {"GL_R8", "GL_RG8", "GL_RGB", "GL_RGB565"}

\* format_traits::remove_size
RemoveSize(e) ==
    CASE e \in {"GL_RED", "GL_R8"} -> "GL_RED"
      [] e \in {"GL_RG", "GL_RG8"} -> "GL_RG"
      [] e \in {"GL_RGB", "GL_RGB8", "GL_RGB32F"} -> "GL_RGB"
      [] e \in {"GL_RGB_INTEGER", "GL_RGB8UI"} -> "GL_RGB_INTEGER"
      [] e \in {"GL_RGBA", "GL_RGBA4", "GL_RGBA8"} -> "GL_RGBA"
      [] e \in {"GL_RGBA_INTEGER", "GL_RGBA8UI"} -> "GL_RGBA_INTEGER"
      [] e \in {"GL_DEPTH_COMPONENT", "GL_DEPTH_COMPONENT16"} -> "GL_DEPTH_COMPONENT"
      [] e \in {"GL_STENCIL", "GL_STENCIL_INDEX8"} -> "GL_STENCIL"
      [] e \in {"GL_DEPTH_STENCIL", "GL_DEPTH24_STENCIL8"} -> "GL_DEPTH_STENCIL"
      [] e \in {"GL_BGR", "GL_BGR_INTEGER", "GL_BGRA", "GL_BGRA_INTEGER"} -> e
      [] e \in {"GL_R3_G3_B2", "GL_R11F_G11F_B10F", "GL_RGB565"} -> "GL_RGB"
      [] e \in {"GL_RGB5_A1", "GL_RGB10_A2"} -> "GL_RGBA"
      [] OTHER -> "GL_NONE"

\* format_traits::underlying_datatype
UnderlyingDatatype(e) ==
    CASE e \in {"GL_R8", "GL_RG8", "GL_RGB8", "GL_RGB8UI", "GL_RGBA4", "GL_RGBA8",
                "GL_RGBA8UI", "GL_STENCIL_INDEX8"} -> "GL_UNSIGNED_BYTE"
      [] e = "GL_DEPTH_COMPONENT16" -> "GL_UNSIGNED_SHORT"
      [] e = "GL_RGB32F" -> "GL_FLOAT"
      [] e = "GL_R3_G3_B2" -> "GL_UNSIGNED_BYTE_3_3_2"
      [] e = "GL_RGB5_A1" -> "GL_UNSIGNED_SHORT_5_5_5_1"
      [] e = "GL_RGB10_A2" -> "GL_UNSIGNED_INT_10_10_10_2"
      [] e = "GL_R11F_G11F_B10F" -> "GL_UNSIGNED_INT_10F_11F_11F_REV"
      [] e = "GL_RGB565" -> "GL_UNSIGNED_SHORT_5_6_5"
      [] e = "GL_DEPTH24_STENCIL8" -> "GL_UNSIGNED_INT_24_8"
      [] OTHER -> "GL_NONE"

\* format_traits::extent
FormatExtent(e) ==
    LET f == RemoveSize(e)
    IN  CASE f \in {"GL_RED", "GL_RED_INTEGER", "GL_DEPTH_COMPONENT", "GL_STENCIL"} -> 1
          [] f \in {"GL_RG", "GL_RG_INTEGER", "GL_DEPTH_STENCIL"} -> 2
          [] f \in {"GL_RGB", "GL_RGB_INTEGER"} -> 3
          [] f \in {"GL_RGBA", "GL_RGBA_INTEGER"} -> 4
          [] OTHER -> 0

\* The packed datatypes gl::is_packed lists.
PackedTypes ==
    {"GL_UNSIGNED_BYTE_3_3_2", "GL_UNSIGNED_BYTE_2_3_3_REV",
     "GL_UNSIGNED_SHORT_5_6_5", "GL_UNSIGNED_SHORT_5_6_5_REV",
     "GL_UNSIGNED_SHORT_4_4_4_4", "GL_UNSIGNED_SHORT_4_4_4_4_REV",
     "GL_UNSIGNED_SHORT_5_5_5_1", "GL_UNSIGNED_SHORT_1_5_5_5_REV",
     "GL_UNSIGNED_INT_24_8", "GL_UNSIGNED_INT_10F_11F_11F_REV",
     "GL_UNSIGNED_INT_8_8_8_8", "GL_UNSIGNED_INT_8_8_8_8_REV",
     "GL_UNSIGNED_INT_10_10_10_2", "GL_UNSIGNED_INT_2_10_10_10_REV",
     "GL_UNSIGNED_INT_5_9_9_9_REV", "GL_FLOAT_32_UNSIGNED_INT_24_8_REV"}

\* gl::size_of
SizeOf(t) ==
    CASE t \in {"GL_BOOL", "GL_BYTE", "GL_UNSIGNED_BYTE",
                "GL_UNSIGNED_BYTE_3_3_2", "GL_UNSIGNED_BYTE_2_3_3_REV"} -> 1
      [] t \in {"GL_SHORT", "GL_UNSIGNED_SHORT",
                "GL_UNSIGNED_SHORT_5_6_5", "GL_UNSIGNED_SHORT_5_6_5_REV",
                "GL_UNSIGNED_SHORT_4_4_4_4", "GL_UNSIGNED_SHORT_4_4_4_4_REV",
                "GL_UNSIGNED_SHORT_5_5_5_1", "GL_UNSIGNED_SHORT_1_5_5_5_REV"} -> 2
      [] t \in {"GL_INT", "GL_UNSIGNED_INT", "GL_FLOAT",
                "GL_UNSIGNED_INT_24_8", "GL_UNSIGNED_INT_10F_11F_11F_REV",
                "GL_UNSIGNED_INT_8_8_8_8", "GL_UNSIGNED_INT_8_8_8_8_REV",
                "GL_UNSIGNED_INT_10_10_10_2", "GL_UNSIGNED_INT_2_10_10_10_REV",
                "GL_UNSIGNED_INT_5_9_9_9_REV"} -> 4
      [] t \in {"GL_DOUBLE", "GL_FLOAT_32_UNSIGNED_INT_24_8_REV"} -> 8
      [] OTHER -> 0

\* gl::is_packed
IsPacked(t) == t \in PackedTypes

\* format_traits::is_sized
IsSized(e) == UnderlyingDatatype(e) # "GL_NONE"

\* pixel_format::get_size() of the pixel format passed to clear: one
\* GL_UNSIGNED_BYTE component.
PixelFormatSize == SizeOf("GL_UNSIGNED_BYTE")

ClearPixelSizeByte(e) == 1

\* The pixel size buffer::clear computes for an internal format.
ClearPixelSize(e) ==
    LET itype == UnderlyingDatatype(e)
        isize == SizeOf(itype)
    IN  IF IsPacked(itype) THEN isize ELSE isize * FormatExtent(e)

\* The asserts of buffer::clear: whether the call goes on to the driver.
ClearAccepted(b, ifmt, plen, fsize) ==
    /\ BufValid(b) /\ ~IsEmpty(b)
    /\ IsSized(ifmt)
    /\ plen = fsize
    /\ b.base % ClearPixelSize(ifmt) = 0
    /\ b.size % ClearPixelSize(ifmt) = 0

\* The assert of buffer::clear that fails when the call is not accepted.
ClearAssert(b, ifmt, plen, fsize) ==
    CASE ~(BufValid(b) /\ ~IsEmpty(b)) -> "clear"
      [] ~IsSized(ifmt) -> "clear is_sized"
      [] plen # fsize -> "clear get_size"
      [] OTHER -> "clear pixel_size"

\* buffer::clear(internal_format, begin, end, format): plen is the byte
\* length of the pixel passed, fsize is format.get_size(), v the pixel's bytes.
Clear(i, ifmt, plen, fsize, v) ==
    /\ Running
    /\ UNCHANGED notBufVars
    /\ Unmapped(bufs[i])
    /\ bufs[i].alive
    /\ LET b == bufs[i]
       IN  IF ClearAccepted(b, ifmt, plen, fsize)
           THEN /\ gl' = glClearBufferSubData(Bind(b, gl), b.base, b.size, v)
                /\ lastBuf' = Done("clear", "ok")
                /\ UNCHANGED <<bufs, maps>>
           ELSE Abort(ClearAssert(b, ifmt, plen, fsize))

\* buffer::invalidate
Invalidate(i) ==
    /\ Running
    /\ UNCHANGED notBufVars
    /\ Unmapped(bufs[i])
    /\ bufs[i].alive
    /\ IF ~BufValid(bufs[i])
       THEN Abort("invalidate")
       ELSE /\ gl' = IF IsEmpty(bufs[i]) THEN gl
                     ELSE glInvalidateBufferSubData(Bind(bufs[i], gl), bufs[i].base, bufs[i].size)
            /\ lastBuf' = Done("invalidate", "ok")
            /\ UNCHANGED <<bufs, maps>>

\* buffer::make_view(offset, size) on the buffer or view in slot i; the view
\* goes to slot j.
MakeView(i, j, offset, size) ==
    /\ Running
    /\ UNCHANGED notBufVars
    /\ bufs[i].alive
    /\ j = FreeSlot
    /\ (BufValid(bufs[i]) /\ ViewOutOfBounds(bufs[i], offset, size))
          => gl.names[bufs[i].name].deletes < MaxUnwinds
    /\ LET b == bufs[i]
       IN  IF ~BufValid(b)
           THEN Abort("make_view")
           ELSE IF ViewOutOfBounds(b, offset, size)
           THEN /\ gl' = ViewCtorUnwind(b, gl)
                /\ lastBuf' = Done("make_view", "error")
                /\ UNCHANGED <<bufs, maps>>
           ELSE /\ bufs' = [bufs EXCEPT ![j] = ViewOf(b, offset, size)]
                /\ lastBuf' = Done("make_view", "ok")
                /\ UNCHANGED <<gl, maps>>

\* buffer::basic_view(const basic_view&)
CopyView(i, j) ==
    /\ Running
    /\ UNCHANGED notBufVars
    /\ bufs[i].alive /\ bufs[i].view
    /\ j = FreeSlot
    /\ bufs' = [bufs EXCEPT ![j] = bufs[i]]
    /\ lastBuf' = Done("copy_view", "ok")
    /\ UNCHANGED <<gl, maps>>

\* buffer::basic_view::~basic_view
DestroyView(i) ==
    /\ Running
    /\ UNCHANGED notBufVars
    /\ bufs[i].alive /\ bufs[i].view
    /\ gl' = ViewDtor(bufs[i], gl)
    /\ bufs' = [bufs EXCEPT ![i] = NoBuf]
    /\ lastBuf' = Done("destroy_view", "ok")
    /\ UNCHANGED maps

\* The views and the mapping made from the buffer in slot i.
Dependents(i) == {j \in BufSlots : bufs[j].alive /\ bufs[j].view /\ bufs[j].root = i}

\* ~buffer on a buffer whose views and mapping are gone (a view or mapping
\* must not outlive its buffer).
DestroyBuffer(i) ==
    /\ Running
    /\ UNCHANGED notBufVars
    /\ bufs[i].alive /\ ~bufs[i].view
    /\ Dependents(i) = {}
    /\ ~(maps.alive /\ maps.root = i)
    /\ gl' = ObjectDtor(bufs[i].name, gl)
    /\ bufs' = [bufs EXCEPT ![i] = NoBuf]
    /\ lastBuf' = Done("destroy", "ok")
    /\ UNCHANGED maps

\* What a mapping constructed over b gets from the driver: the constructor
\* makes a view of all of b, binds it and maps [get_offset(), +get_size()).
MapRead(b, g) == glMapBufferRange(Bind(b, g), Plus(b.base, 0), b.size)

\* buffer::map<GLubyte>(access) and buffer::mapping's constructor, which
\* throws when the driver returns a null pointer.
Map(i) ==
    /\ Running
    /\ UNCHANGED notBufVars
    /\ bufs[i].alive
    /\ ~maps.alive
    /\ LET b == bufs[i] IN
       IF ~(BufValid(b) /\ ~IsEmpty(b))
       THEN Abort("map")
       ELSE IF ~MapRead(b, gl).ptr
       THEN /\ gl' = ViewDtor(ViewOf(b, 0, b.size), Bind(b, gl))
            /\ lastBuf' = Done("map", "error")
            /\ UNCHANGED <<bufs, maps>>
       ELSE /\ gl' = [Bind(b, gl) EXCEPT !.names[Bind(b, gl).bound].mapped = TRUE]
            /\ maps' = [alive |-> TRUE, name |-> b.name, base |-> Plus(b.base, 0),
                        size |-> b.size, root |-> b.root]
            /\ lastBuf' = Done("map", "ok")
            /\ UNCHANGED bufs

\* buffer::mapping::~mapping: bind, glUnmapBuffer, then ~basic_view.
Unmap ==
    /\ Running
    /\ UNCHANGED notBufVars
    /\ maps.alive
    /\ gl' = ViewDtor(maps, glUnmapBuffer(Bind(maps, gl)))
    /\ maps' = NoMap
    /\ lastBuf' = Done("unmap", "ok")
    /\ UNCHANGED bufs

BufNext ==
    \/ \E i \in BufSlots : NewBuffer(i)
    \/ \E i \in BufSlots, size \in 0..MaxAlloc : Immutable(i, size)
    \/ \E i \in BufSlots, size \in 0..MaxAlloc : Set(i, size)
    \/ \E i \in BufSlots, data \in Ranges : SetRange(i, data)
    \/ \E i \in BufSlots, data \in Ranges : Update(i, data)
    \/ \E i \in BufSlots, e \in ClearFormats, plen \in 1..2, v \in Fill :
          Clear(i, e, plen, PixelFormatSize, v)
    \/ \E i \in BufSlots : Invalidate(i)
    \/ \E i, j \in BufSlots, offset \in ViewArgs, size \in 0..MaxAlloc :
          MakeView(i, j, offset, size)
    \/ \E i, j \in BufSlots : CopyView(i, j)
    \/ \E i \in BufSlots : DestroyView(i)
    \/ \E i \in BufSlots : DestroyBuffer(i)
    \/ \E i \in BufSlots : Map(i)
    \/ Unmap

BufStart == BufInit /\ LifeInit /\ UniIdle /\ LaterIdle

SpecBuf == BufStart /\ [][BufNext]_vars

(***************************************************************************)
(* Claims about buffers and their views.                                   *)
(***************************************************************************)

\* The buffer a view was made from.
RootOf(b) == bufs[b.root]

\* C2: while a buffer is alive, making, copying and destroying views of it
\* never passes its handle to glDeleteBuffers, and no handle is ever passed
\* to glDeleteBuffers more than once.
C2_ViewsNeverDestroy ==
    /\ \A i \in BufSlots :
          (bufs[i].alive /\ ~bufs[i].view) => gl.names[bufs[i].name].deletes = 0
    /\ \A n \in BufNames : gl.names[n].deletes <= 1

\* C4: make_view(offset, size) on a buffer succeeds exactly when the true sum
\* offset + size is at most the buffer's size, and the view then reports
\* that size and offset; otherwise it reports an error and yields no view.
C4_Step ==
    lastBuf'.op = "make_view" =>
        \A i, j \in BufSlots, offset \in ViewArgs, size \in 0..MaxAlloc :
            (MakeView(i, j, offset, size) /\ ~bufs[i].view) =>
                IF offset + size <= bufs[i].size
                THEN /\ lastBuf'.status = "ok"
                     /\ bufs'[j].alive /\ bufs'[j].view
                     /\ bufs'[j].size = size
                     /\ bufs'[j].base = offset
                ELSE /\ lastBuf'.status = "error"
                     /\ bufs' = bufs

C4_MakeViewBounds == [][C4_Step]_vars

\* C5: every live buffer and view has base + size at most the size of the
\* buffer it was made from, directly or through other views.
C5_InsideRoot ==
    \A i \in BufSlots :
        bufs[i].alive => bufs[i].base + bufs[i].size <= RootOf(bufs[i]).size

\* A buffer created by immutable(), and the views made from it.
FromImmutable(b) == b.alive /\ b.made = "immutable"

\* is_immutable() is true of an immutable buffer and of its views, and
\* get_size() of the buffer is the creation size.
C6_State ==
    \A i \in BufSlots :
        FromImmutable(bufs[i]) =>
            /\ bufs[i].immutable
            /\ ~bufs[i].view => bufs[i].size = bufs[i].size0

\* C6 as stated: every set call on an immutable buffer reports an error and
\* leaves its size and storage unchanged; is_immutable() stays true, of the
\* buffer and of its views, and get_size() stays the creation size.
C6_SetStep ==
    lastBuf'.op \in {"set", "set_range"} =>
        \A i \in BufSlots :
            FromImmutable(bufs[i]) =>
                /\ \A size \in 0..MaxAlloc :
                      Set(i, size) =>
                          lastBuf'.status = "error" /\ bufs' = bufs /\ gl' = gl
                /\ \A data \in Ranges :
                      SetRange(i, data) =>
                          lastBuf'.status = "error" /\ bufs' = bufs /\ gl' = gl

C6_SetReportsError == [](C6_State) /\ [][C6_SetStep]_vars

\* C6 amended: set(size) on an immutable buffer reports an error and leaves
\* its size and storage unchanged, set(begin, end) on it fails an assertion
\* and allocates nothing; is_immutable() stays true, of the buffer and of
\* its views, and get_size() stays the creation size.
C6_AmendedStep ==
    lastBuf'.op \in {"set", "set_range"} =>
        \A i \in BufSlots :
            FromImmutable(bufs[i]) =>
                /\ \A size \in 0..MaxAlloc :
                      Set(i, size) =>
                          lastBuf'.status = "error" /\ bufs' = bufs /\ gl' = gl
                /\ \A data \in Ranges :
                      SetRange(i, data) => lastBuf'.status = "assert"

C6_ImmutableStays == [](C6_State) /\ [][C6_AmendedStep]_vars

\* set has just been refused on an immutable buffer that has a view.
C6_Witness ==
    /\ lastBuf = Done("set", "error")
    /\ \E i, j \in BufSlots :
          /\ FromImmutable(bufs[i]) /\ ~bufs[i].view
          /\ bufs[i].size = MaxAlloc
          /\ bufs[j].alive /\ bufs[j].view /\ bufs[j].root = i /\ bufs[j].immutable

\* The bytes of every buffer object other than those in [base, base + size)
\* of the object named `name` are the same in g and h.
SameOutside(g, h, name, base, size) ==
    \A n \in BufNames :
        /\ Len(h.names[n].store) = Len(g.names[n].store)
        /\ \A k \in 1..Len(g.names[n].store) :
              (n # name \/ k <= base \/ k > base + size) =>
                  h.names[n].store[k] = g.names[n].store[k]

\* C7: update is accepted only when the input is exactly get_size() bytes;
\* when it is accepted, a read mapping over the same region yields the bytes
\* written, and every byte outside [base, base + size) is unchanged.
C7_Step ==
    lastBuf' = Done("update", "ok") =>
        \A i \in BufSlots, data \in Ranges :
            Update(i, data) =>
                /\ Len(data) = bufs[i].size
                /\ MapRead(bufs[i], gl').ptr
                /\ MapRead(bufs[i], gl').bytes = data
                /\ SameOutside(gl, gl', bufs[i].name, bufs[i].base, bufs[i].size)

C7_UpdateRoundTrip == [][C7_Step]_vars

\* The pixel byte size of the sized clear formats: one byte for GL_R8, one
\* byte for each of the two channels of GL_RG8, and the two bytes of the
\* packed datatype of GL_RGB565.
C20_PixelBytes(e) ==
    CASE e = "GL_R8" -> 1
      [] e = "GL_RG8" -> 2
      [] e = "GL_RGB565" -> 2
      [] OTHER -> 1

\* The cases in which clear has to be rejected.
C20_Bad(b, e, plen) ==
    \/ e \notin {"GL_R8", "GL_RG8", "GL_RGB565"}
    \/ plen # PixelFormatSize
    \/ b.base % C20_PixelBytes(e) # 0
    \/ b.size % C20_PixelBytes(e) # 0

C20_State ==
    \A i \in BufSlots, e \in ClearFormats, plen \in 1..2 :
        (bufs[i].alive /\ C20_Bad(bufs[i], e, plen)) =>
            ~ClearAccepted(bufs[i], e, plen, PixelFormatSize)

C20_Step ==
    lastBuf'.op \in {"clear", "clear is_sized", "clear get_size", "clear pixel_size"} =>
        IF lastBuf'.status = "assert"
        THEN \A n \in BufNames : gl'.names[n] \in {gl.names[n], NoStore}
        ELSE \E i \in BufSlots, v \in Fill :
                /\ bufs[i].alive
                /\ \E e \in ClearFormats : ~C20_Bad(bufs[i], e, PixelFormatSize)
                /\ gl' = glClearBufferSubData(Bind(bufs[i], gl),
                                              bufs[i].base, bufs[i].size, v)

\* C20: buffer clear is rejected, writing no bytes, when the internal format
\* is not sized, when the pixel's byte length differs from the pixel
\* format's size, or when the base offset or the size is not a multiple of
\* the internal format's pixel byte size (the datatype size for a packed
\* datatype, datatype size times channel count otherwise); an accepted clear
\* is issued for exactly the range [base, base + size), never a rounded or
\* truncated one.
C20_ClearRejects == [](C20_State) /\ [][C20_Step]_vars

\* A clear of a valid, allocated buffer has just been rejected for its base
\* offset or size.
C20_Witness == lastBuf = Done("clear pixel_size", "assert")

(***************************************************************************)
(* Program uniforms: uniform and uniform::view over the one active uniform *)
(* of a linked program.  The uniform is declared outside any uniform block *)
(* with an introspected type and an array length; the driver keeps, for    *)
(* each element, the type of the value last loaded into it.                *)
(***************************************************************************)
MaxUnis == 2         \* slots for uniform and view instances
MaxCount == 2        \* the largest declared array length

UniSlots == 1..MaxUnis

\* Sizes a caller passes to uniform::make_view: the lengths that fit an
\* array and the value at the top of std::size_t.
UniViewSizes == (0..MaxCount) \cup {SizeMod - 1}

\* Introspected types (GL_UNIFORM_TYPE) a uniform is declared with.
UniformTypes ==
    {"GL_FLOAT", "GL_BOOL", "GL_BOOL_VEC2", "GL_SAMPLER_2D", "GL_IMAGE_2D"}

\* make_enum_v of the values a caller passes to update.
SourceTypes ==
    {"GL_INT", "GL_UNSIGNED_INT", "GL_FLOAT", "GL_BOOL", "GL_FLOAT_VEC2"}

\* The component type and the component count an enumeration stands for.
BaseType(e) ==
    CASE e \in {"GL_INT", "GL_INT_VEC2"} -> "int"
      [] e \in {"GL_UNSIGNED_INT", "GL_UNSIGNED_INT_VEC2"} -> "uint"
      [] e \in {"GL_FLOAT", "GL_FLOAT_VEC2"} -> "float"
      [] e \in {"GL_BOOL", "GL_BOOL_VEC2"} -> "bool"
      [] e = "GL_SAMPLER_2D" -> "sampler"
      [] OTHER -> "image"

Components(e) ==
    IF e \in {"GL_INT_VEC2", "GL_UNSIGNED_INT_VEC2", "GL_FLOAT_VEC2", "GL_BOOL_VEC2"}
    THEN 2 ELSE 1

\* shader_traits::is_opaque
IsOpaque(e) == e \in {"GL_SAMPLER_2D"}

IsAssignableAlways(dest, src) == TRUE

\* shader_traits::is_assignable
IsAssignable(dest, src) ==
    IF dest = src THEN TRUE
    ELSE IF IsOpaque(dest) /\ src = "GL_INT" THEN TRUE
    ELSE CASE dest = "GL_BOOL" -> src \in {"GL_INT", "GL_UNSIGNED_INT", "GL_FLOAT"}
           [] dest = "GL_BOOL_VEC2" ->
                  src \in {"GL_INT_VEC2", "GL_UNSIGNED_INT_VEC2", "GL_FLOAT_VEC2"}
           [] OTHER -> FALSE

\* The glUniform command uniform::update_values issues for a source type:
\* booleans are loaded as GLint.
CommandType(src) == IF BaseType(src) = "bool" THEN "int" ELSE BaseType(src)

\* Whether the driver loads a value of type src into a uniform declared
\* dest: the command matches the declared type, or the uniform is a boolean
\* of the same width, or it is a sampler or an image loaded with one int.
DriverTakes(dest, src) ==
    \/ BaseType(dest) = CommandType(src) /\ Components(dest) = Components(src)
    \/ BaseType(dest) = "bool" /\ Components(dest) = Components(src)
    \/ BaseType(dest) \in {"sampler", "image"} /\ CommandType(src) = "int" /\ Components(src) = 1

\* glGetUniformLocation of the uniform's name (element 0) or of name[k];
\* -1 when the program has no such element.
glGetUniformLocation(p, k) == IF k < p.count THEN k ELSE -1

\* glUniform*v(location, count, values): elements past the end of the array
\* are ignored; a call that does not fit the declaration loads nothing.
glUniform(p, location, count, src) ==
    IF location = -1 \/ ~DriverTakes(p.datatype, src) \/ (count > 1 /\ p.count = 1)
    THEN p
    ELSE [p EXCEPT !.values =
             [k \in 1..p.count |->
                 IF k > location /\ k <= location + count THEN src ELSE @[k]]]

NoUni == [alive |-> FALSE]
Unset(p) == [p EXCEPT !.values = [k \in 1..p.count |-> "unset"]]

UniRunning == lastUni.status # "assert"

\* uniform::is_valid
UniformIsValid(u) == u.location # -1

\* uniform::is_array
UniformIsArray(u) == u.size > 1

FreeUni ==
    IF \E j \in UniSlots : ~unis[j].alive
    THEN CHOOSE j \in UniSlots : ~unis[j].alive /\ \A k \in UniSlots : k < j => unis[k].alive
    ELSE 0

UniInit ==
    /\ unis = [i \in UniSlots |-> NoUni]
    /\ \E t \in UniformTypes, c \in 1..MaxCount :
          prog = Unset([datatype |-> t, count |-> c, values |-> <<>>])
    /\ lastUni = Done("none", "ok")

\* A failed assert aborts the process; the program goes with its context.
UniAbort(op) ==
    /\ unis' = [i \in UniSlots |-> NoUni]
    /\ prog' = Unset(prog)
    /\ lastUni' = Done(op, "assert")

\* uniform::uniform(const program&, std::string name); `known` tells whether
\* the program has a uniform of that name.
UniformCtor(i, known) ==
    /\ UniRunning
    /\ UNCHANGED notUniVars
    /\ i = FreeUni
    /\ LET location == IF known THEN glGetUniformLocation(prog, 0) ELSE -1
       IN  IF location = -1
           THEN /\ lastUni' = Done("uniform", "error")
                /\ unis' = unis
           ELSE /\ unis' = [unis EXCEPT ![i] =
                               [alive |-> TRUE, view |-> FALSE, location |-> location,
                                datatype |-> prog.datatype, base |-> 0,
                                size |-> prog.count]]
                /\ lastUni' = Done("uniform", "ok")
    /\ prog' = prog

\* The checks of uniform::update(const T&) with make_enum_v<T> = src: the
\* assertion, then the type test.
UpdateOutcome(u, src) ==
    IF ~(UniformIsValid(u) /\ ~UniformIsArray(u)) THEN "assert"
    ELSE IF ~IsAssignable(u.datatype, src) THEN "error"
    ELSE "ok"

\* uniform::update(const T&)
UniformUpdate(i, src) ==
    /\ UniRunning
    /\ UNCHANGED notUniVars
    /\ unis[i].alive
    /\ LET u == unis[i] IN
       CASE UpdateOutcome(u, src) = "assert" -> UniAbort("update")
         [] UpdateOutcome(u, src) = "error" ->
                /\ lastUni' = Done("update", "error")
                /\ UNCHANGED <<unis, prog>>
         [] OTHER ->
                /\ prog' = glUniform(prog, u.location, 1, src)
                /\ lastUni' = Done("update", "ok")
                /\ unis' = unis

\* The checks of uniform::update(begin, end) with n elements of type src:
\* the assertion, the size test, then the type test.
UpdateRangeOutcome(u, src, n) ==
    IF ~(UniformIsValid(u) /\ UniformIsArray(u)) THEN "assert"
    ELSE IF n # u.size THEN "error"
    ELSE IF ~IsAssignable(u.datatype, src) THEN "error"
    ELSE "ok"

\* uniform::update(begin, end)
UniformUpdateRange(i, src, n) ==
    /\ UniRunning
    /\ UNCHANGED notUniVars
    /\ unis[i].alive
    /\ LET u == unis[i] IN
       CASE UpdateRangeOutcome(u, src, n) = "assert" -> UniAbort("update_range")
         [] UpdateRangeOutcome(u, src, n) = "error" ->
                /\ lastUni' = Done("update_range", "error")
                /\ UNCHANGED <<unis, prog>>
         [] OTHER ->
                /\ prog' = glUniform(prog, u.location, u.size, src)
                /\ lastUni' = Done("update_range", "ok")
                /\ unis' = unis

\* The bounds test of uniform::make_view, in std::size_t arithmetic.
UniformViewOutOfBounds(u, offset, size) == Plus(offset, size) > u.size

\* uniform::uniform(const uniform&, offset, size): the view and the location
\* of name[m_base].
UniformViewOf(u, offset, size) ==
    [alive |-> TRUE, view |-> TRUE,
     location |-> glGetUniformLocation(prog, Plus(u.base, offset)),
     datatype |-> u.datatype, base |-> Plus(u.base, offset), size |-> size]

\* uniform::make_view(offset, size) on the uniform or view in slot i; the
\* view goes to slot j.
UniformMakeView(i, j, offset, size) ==
    /\ UniRunning
    /\ UNCHANGED notUniVars
    /\ unis[i].alive
    /\ j = FreeUni
    /\ LET u == unis[i] IN
       IF ~UniformIsValid(u)
       THEN UniAbort("make_view")
       ELSE IF ~UniformIsArray(u) \/ UniformViewOutOfBounds(u, offset, size)
                 \/ ~UniformIsValid(UniformViewOf(u, offset, size))
       THEN /\ lastUni' = Done("make_view", "error")
            /\ UNCHANGED <<unis, prog>>
       ELSE /\ unis' = [unis EXCEPT ![j] = UniformViewOf(u, offset, size)]
            /\ lastUni' = Done("make_view", "ok")
            /\ prog' = prog

\* The (implicit) destructor of a uniform or view.
UniformDtor(i) ==
    /\ UniRunning
    /\ UNCHANGED notUniVars
    /\ unis[i].alive
    /\ unis' = [unis EXCEPT ![i] = NoUni]
    /\ lastUni' = Done("destroy", "ok")
    /\ prog' = prog

UniNext ==
    \/ \E i \in UniSlots, known \in BOOLEAN : UniformCtor(i, known)
    \/ \E i \in UniSlots, src \in SourceTypes : UniformUpdate(i, src)
    \/ \E i \in UniSlots, src \in SourceTypes, n \in 0..MaxCount : UniformUpdateRange(i, src, n)
    \/ \E i, j \in UniSlots, offset \in ViewArgs, size \in UniViewSizes :
          UniformMakeView(i, j, offset, size)
    \/ \E i \in UniSlots : UniformDtor(i)

UniStart == UniInit /\ LifeInit /\ LifeIdleBuf /\ LaterIdle

SpecUni == UniStart /\ [][UniNext]_vars

(***************************************************************************)
(* Claims about uniforms.                                                  *)
(***************************************************************************)

\* Assignable: the same type; or an int, unsigned or float scalar or vector
\* to a bool-typed uniform of the same width; or a plain int to a sampler.
Assignable(dest, src) ==
    \/ dest = src
    \/ /\ BaseType(dest) = "bool"
       /\ BaseType(src) \in {"int", "uint", "float"}
       /\ Components(src) = Components(dest)
    \/ BaseType(dest) = "sampler" /\ src = "GL_INT"

\* An int is not assignable to a float uniform, a float is.
IntFloat == ~IsAssignable("GL_FLOAT", "GL_INT") /\ IsAssignable("GL_FLOAT", "GL_FLOAT")

\* An update that is not accepted reports an error and loads no value.
C9_Rejected ==
    (lastUni'.op \in {"update", "update_range"} /\ lastUni'.status # "ok") =>
        (lastUni'.status = "error" /\ prog' = prog)

\* C9 as stated: an update is accepted exactly when the source type is
\* assignable to the uniform's type and, for a range, the number of elements
\* is the uniform's element count; a rejected update reports an error and
\* loads no value; int to float is rejected, float to float accepted.
C9_Accepts ==
    \A i \in UniSlots, src \in SourceTypes :
        unis[i].alive =>
            /\ UpdateOutcome(unis[i], src) = "ok" <=> Assignable(unis[i].datatype, src)
            /\ \A n \in 0..MaxCount :
                  UpdateRangeOutcome(unis[i], src, n) = "ok" <=>
                      (Assignable(unis[i].datatype, src) /\ n = unis[i].size)

C9_AmendedRejected ==
    (lastUni'.op \in {"update", "update_range"} /\ lastUni'.status = "error") =>
        prog' = prog

\* C9 amended: update(value) on a uniform or view of one element is accepted
\* exactly when the source type is assignable, and update(range) on one of
\* more than one element exactly when the number of elements is its element
\* count and the source type is assignable; an update so rejected reports an
\* error and loads no value.  update(value) on more than one element and
\* update(range) on a single element fail an assertion.  Int to float is
\* rejected, float to float accepted.
C9_AmendedAccepts ==
    \A i \in UniSlots, src \in SourceTypes :
        unis[i].alive =>
            /\ IF unis[i].size > 1
               THEN UpdateOutcome(unis[i], src) = "assert"
               ELSE UpdateOutcome(unis[i], src) =
                        IF Assignable(unis[i].datatype, src) THEN "ok" ELSE "error"
            /\ \A n \in 0..MaxCount :
                  IF unis[i].size <= 1
                  THEN UpdateRangeOutcome(unis[i], src, n) = "assert"
                  ELSE UpdateRangeOutcome(unis[i], src, n) =
                           IF Assignable(unis[i].datatype, src) /\ n = unis[i].size
                           THEN "ok" ELSE "error"

C10_Step ==
    lastUni'.op = "make_view" =>
        /\ \A i, j \in UniSlots, offset \in ViewArgs, size \in UniViewSizes :
              UniformMakeView(i, j, offset, size) =>
                  IF unis[i].size <= 1 \/ offset + size > unis[i].size
                  THEN lastUni'.status = "error" /\ unis' = unis
                  ELSE unis[i].base + offset < prog.count =>
                          /\ lastUni'.status = "ok"
                          /\ unis'[j].alive /\ unis'[j].view
                          /\ unis'[j].size = size
                          /\ unis'[j].base = unis[i].base + offset
                          /\ unis'[j].location =
                                 glGetUniformLocation(prog, unis[i].base + offset)
        /\ \A i \in UniSlots :
              unis'[i].alive => unis'[i].base + unis'[i].size <= prog.count

C10_MakeViewChecked == [][C10_Step]_vars

(***************************************************************************)
(* Program linking and introspection: program::program(names, from),       *)
(* program::link, attribute::from_program, uniform::from_program and the   *)
(* name-keyed tables of the program instance.                              *)
(***************************************************************************)

\* Bounds of the linking model.
MaxShaders == 2      \* compiled shaders that exist when the model starts
MaxActive == 2       \* active uniforms the linked program can report

Idle == [op |-> "none"]

ShaderNames == 1..MaxShaders

\* The list of shader names handed to the constructor.
NameLists == UNION {[1..n -> ShaderNames] : n \in 0..MaxShaders}

\* Characters of uniform names; NUL is the character std::string::resize
\* fills with and a C string ends at.
NUL == "\\0"
Subscript == <<"[", "0", "]">>
BaseNames == {<<"a">>, <<"b", "c">>}

\* What the driver knows about one active uniform.
ActiveUniforms ==
    [base : BaseNames, array : BOOLEAN, type : {"GL_FLOAT", "GL_INT"}, block : {-1, 0}]

\* The name, GL_UNIFORM_SIZE and GL_UNIFORM_NAME_LENGTH the driver reports.
Reported(u) == IF u.array THEN u.base \o Subscript ELSE u.base
ReportedSize(u) == IF u.array THEN 2 ELSE 1
NameLength(u) == Len(Reported(u)) + 1

\* The location the driver gave the k-th active uniform.
LocationOf(k) == 2 * (k - 1)

\* Active attributes the driver reports, built-ins included.
AttributeLists == {<<>>, <<"position">>, <<"gl_VertexID", "position">>}

\* shader_traits::is_builtin
IsBuiltin(name) ==
    name \in {"gl_VertexID", "gl_InstanceID", "gl_DrawID", "gl_BaseVertex", "gl_BaseInstance"}

NoProgram == [alive |-> FALSE]
NoObject == [gen |-> FALSE, attached |-> {}, linked |-> FALSE, deletes |-> 0]

ProgInit ==
    \E actives \in UNION {[1..n -> ActiveUniforms] : n \in 0..MaxActive},
       attribs \in AttributeLists :
       /\ \A j, k \in DOMAIN actives : j # k => actives[j].base # actives[k].base
       /\ linker = [op |-> "none", status |-> "ok", names |-> <<>>, calls |-> <<>>,
                    shaders |-> [n \in ShaderNames |-> "live"],
                    actives |-> actives, attribs |-> attribs,
                    obj |-> NoObject, inst |-> NoProgram,
                    from |-> NoProgram, before |-> NoProgram]

\* The glAttachShader loop of program::link: the driver attaches every name
\* of a shader object that exists and is not attached yet.
AttachAll(attached, shaders, names) ==
    attached \cup {names[k] : k \in {k \in DOMAIN names : shaders[names[k]] # "deleted"}}

DetachNone(attached, names) == attached

\* The glDetachShader loop of program::link.
DetachAll(attached, names) ==
    attached \ {names[k] : k \in DOMAIN names}

\* A shader flagged for deletion goes when it is attached to nothing.
Sweep(shaders, attached) ==
    [n \in ShaderNames |->
        IF shaders[n] = "flagged" /\ n \notin attached THEN "deleted" ELSE shaders[n]]

\* The driver calls program::program(names, from) makes, in order.
CtorCalls(names, created, ok) ==
    <<[call |-> "glCreateProgram", arg |-> 0]>>
    \o (IF ~created THEN <<>> ELSE
        [k \in DOMAIN names |-> [call |-> "glAttachShader", arg |-> names[k]]]
        \o <<[call |-> "glLinkProgram", arg |-> 0], [call |-> "GL_LINK_STATUS", arg |-> 0]>>
        \o (IF ~ok THEN <<>> ELSE
            [k \in DOMAIN names |-> [call |-> "glDetachShader", arg |-> names[k]]]
            \o <<[call |-> "attribute::from_program", arg |-> 0],
                 [call |-> "uniform::from_program", arg |-> 0]>>))

\* attribute::from_program: one record per active attribute that is not a
\* built-in, with the location glGetAttribLocation reports for its name.
AttributesFromProgram(attribs) ==
    {[key |-> attribs[k], location |-> k - 1] :
        k \in {k \in DOMAIN attribs : ~IsBuiltin(attribs[k])}}

\* std::vector<GLuint> indices(count): value-initialized.
Indices(count) == [k \in 1..count |-> 0]

\* get_parameters: glGetActiveUniformsiv for the listed indices.
GetParameters(actives, indices, e) ==
    [k \in DOMAIN indices |->
        LET u == actives[indices[k] + 1]
        IN  CASE e = "GL_UNIFORM_TYPE" -> u.type
              [] e = "GL_UNIFORM_SIZE" -> ReportedSize(u)
              [] e = "GL_UNIFORM_BLOCK_INDEX" -> u.block
              [] e = "GL_UNIFORM_NAME_LENGTH" -> NameLength(u)]

\* The characters of s before the first c (all of s when it has none).
Before(s, c) ==
    IF \E k \in DOMAIN s : s[k] = c
    THEN SubSeq(s, 1, (CHOOSE k \in DOMAIN s : s[k] = c /\ \A j \in 1..(k - 1) : s[j] # c) - 1)
    ELSE s

\* glGetUniformLocation: -1 for a name that is no active uniform outside a
\* block.
GetUniformLocation(actives, cname) ==
    LET hits == {k \in DOMAIN actives :
                    /\ actives[k].block = -1
                    /\ cname \in {actives[k].base, Reported(actives[k])}}
    IN  IF hits = {} THEN -1 ELSE LocationOf(CHOOSE k \in hits : TRUE)

\* uniform::uniform(owner, index, type, size, namelen): the name is read
\* into a string of namelen - 1 characters, cut at its subscript and looked
\* up as a C string.
IntrospectedUniform(actives, index, type, size, namelen) ==
    LET full == Reported(actives[index + 1])
        kept == IF Len(full) < namelen - 1 THEN Len(full) ELSE namelen - 1
        read == SubSeq(full, 1, kept) \o [k \in 1..(namelen - 1 - kept) |-> NUL]
        name == Before(read, "[")
    IN  [key |-> name, datatype |-> type, size |-> size,
         location |-> GetUniformLocation(actives, Before(name, NUL))]

\* The loop of uniform::from_program from index i on: results.emplace keeps
\* the first record of a key, validate_location throws.
RECURSIVE UniformLoop(_, _, _, _, _, _, _)
UniformLoop(actives, types, sizes, blocks, lengths, i, results) ==
    IF i >= Len(actives) THEN [threw |-> FALSE, table |-> results]
    ELSE IF blocks[i + 1] # -1
    THEN UniformLoop(actives, types, sizes, blocks, lengths, i + 1, results)
    ELSE LET u == IntrospectedUniform(actives, i, types[i + 1], sizes[i + 1], lengths[i + 1])
         IN  IF u.location = -1 THEN [threw |-> TRUE, table |-> {}]
             ELSE UniformLoop(actives, types, sizes, blocks, lengths, i + 1,
                     IF \E r \in results : r.key = u.key THEN results ELSE results \cup {u})

\* uniform::from_program: the parameters are fetched for `indices` before
\* std::iota fills it.
UniformsFromProgram(actives) ==
    LET indices == Indices(Len(actives))
    IN  UniformLoop(actives,
                    GetParameters(actives, indices, "GL_UNIFORM_TYPE"),
                    GetParameters(actives, indices, "GL_UNIFORM_SIZE"),
                    GetParameters(actives, indices, "GL_UNIFORM_BLOCK_INDEX"),
                    GetParameters(actives, indices, "GL_UNIFORM_NAME_LENGTH"),
                    0, {})

\* program::program(names, from) with program::link: `created` tells whether
\* glCreateProgram yields a name, `ok` whether the link status is GL_TRUE.
\* An exception leaves no instance behind and runs no destructor.
ProgramCtor(names, created, ok) ==
    /\ UNCHANGED <<lifeVars, bufVars, uniVars, texs, fmts, traits, mapper>>
    /\ ~linker.obj.gen /\ ~linker.inst.alive
    /\ LET attached == AttachAll({}, linker.shaders, names)
           detached == DetachAll(attached, names)
           uniforms == UniformsFromProgram(linker.actives)
           done == [linker EXCEPT !.op = "program", !.names = names,
                                  !.calls = CtorCalls(names, created, ok)]
       IN  IF ~created
           THEN linker' = [done EXCEPT !.status = "error"]
           ELSE IF ~ok
           THEN linker' = [done EXCEPT !.status = "error",
                              !.obj = [NoObject EXCEPT !.gen = TRUE, !.attached = attached]]
           ELSE linker' = [done EXCEPT
                              !.status = IF uniforms.threw THEN "error" ELSE "ok",
                              !.shaders = Sweep(linker.shaders, detached),
                              !.obj = [NoObject EXCEPT !.gen = TRUE, !.attached = detached,
                                                       !.linked = TRUE],
                              !.inst = IF uniforms.threw THEN NoProgram
                                       ELSE [alive |-> TRUE, name |-> 1,
                                             attributes |-> AttributesFromProgram(linker.attribs),
                                             uniforms |-> uniforms.table]]

\* shader::~shader: glDeleteShader flags a shader that is still attached and
\* deletes any other.
ShaderDtor(n) ==
    /\ UNCHANGED <<lifeVars, bufVars, uniVars, texs, fmts, traits, mapper>>
    /\ linker.shaders[n] = "live"
    /\ linker' = [linker EXCEPT
                     !.op = "~shader", !.status = "ok",
                     !.shaders = Sweep([linker.shaders EXCEPT ![n] = "flagged"],
                                       linker.obj.attached)]

\* program::get_uniform / get_attribute: the record of the key, or the
\* exception when the table has none.
Lookup(table, name) ==
    IF \E r \in table : r.key = name
    THEN [status |-> "ok", record |-> CHOOSE r \in table : r.key = name]
    ELSE [status |-> "error"]

GetUniform(name) ==
    /\ UNCHANGED <<lifeVars, bufVars, uniVars, texs, fmts, traits, mapper>>
    /\ linker.inst.alive
    /\ linker' = [linker EXCEPT !.op = "get_uniform",
                                !.status = Lookup(linker.inst.uniforms, name).status]

GetAttribute(name) ==
    /\ UNCHANGED <<lifeVars, bufVars, uniVars, texs, fmts, traits, mapper>>
    /\ linker.inst.alive
    /\ linker' = [linker EXCEPT !.op = "get_attribute",
                                !.status = Lookup(linker.inst.attributes, name).status]

\* program::program(program&& other), other being the instance that holds
\* the handle: the new instance takes m_name and its tables are default
\* constructed; `from` is the moved-from instance, which keeps its tables,
\* and `before` (history) is the source as it was.
ProgramMoveCtor ==
    /\ UNCHANGED <<lifeVars, bufVars, uniVars, texs, fmts, traits, mapper>>
    /\ linker.inst.alive /\ ~linker.from.alive
    /\ linker' = [linker EXCEPT
                     !.op = "program(program&&)", !.status = "ok",
                     !.inst = [alive |-> TRUE, name |-> linker.inst.name,
                               attributes |-> {}, uniforms |-> {}],
                     !.from = [linker.inst EXCEPT !.name = 0],
                     !.before = linker.inst]

\* program::operator=(program&& other) on the moved-from instance, other
\* being the instance that holds the handle: m_name is 0, so nothing is
\* deleted; the destination takes m_name and keeps the tables it has.
ProgramMoveAssign ==
    /\ UNCHANGED <<lifeVars, bufVars, uniVars, texs, fmts, traits, mapper>>
    /\ linker.inst.alive /\ linker.from.alive
    /\ linker' = [linker EXCEPT
                     !.op = "operator=(program&&)", !.status = "ok",
                     !.inst = [linker.from EXCEPT !.name = linker.inst.name],
                     !.from = [linker.inst EXCEPT !.name = 0],
                     !.before = linker.inst]

\* program::~program of the instance that holds the handle; the moved-from
\* instance, whose m_name is 0, goes with it and deletes nothing.
ProgramDtor ==
    /\ UNCHANGED <<lifeVars, bufVars, uniVars, texs, fmts, traits, mapper>>
    /\ linker.inst.alive
    /\ linker' = [linker EXCEPT !.op = "~program", !.status = "ok",
                                !.inst = NoProgram, !.from = NoProgram,
                                !.before = NoProgram,
                                !.obj = [linker.obj EXCEPT !.deletes = @ + 1, !.attached = {}]]

ProgNext ==
    \/ \E names \in NameLists, created, ok \in BOOLEAN : ProgramCtor(names, created, ok)
    \/ \E n \in ShaderNames : ShaderDtor(n)
    \/ \E name \in BaseNames : GetUniform(name)
    \/ \E name \in {"position", "gl_VertexID", "normal"} : GetAttribute(name)
    \/ ProgramMoveCtor
    \/ ProgramMoveAssign
    \/ ProgramDtor

ProgStart ==
    /\ ProgInit /\ LifeInit /\ LifeIdleBuf /\ UniIdle
    /\ texs = Idle /\ fmts = Idle /\ traits = Idle /\ mapper = Idle

SpecProg == ProgStart /\ [][ProgNext]_vars

(***************************************************************************)
(* Claims about program linking and introspection.                         *)
(***************************************************************************)

\* The calls k positions after position `from` are `call` on the names of
\* the last constructor, in their order.
CallsFrom(from, call) ==
    \A k \in DOMAIN linker.names :
       linker.calls[from + k] = [call |-> call, arg |-> linker.names[k]]

C11_State ==
    LET n == Len(linker.names)
        c == linker.calls
    IN  /\ (linker.op = "program" /\ Len(c) > 1) =>
              /\ CallsFrom(1, "glAttachShader")
              /\ c[n + 2].call = "glLinkProgram"
              /\ c[n + 3].call = "GL_LINK_STATUS"
              /\ linker.obj.linked =>
                    /\ CallsFrom(n + 3, "glDetachShader")
                    /\ c[2 * n + 4].call = "attribute::from_program"
                    /\ Len(c) = 2 * n + 5
              /\ ~linker.obj.linked => (Len(c) = n + 3 /\ linker.status = "error")
        /\ linker.inst.alive => (linker.obj.linked /\ linker.obj.attached = {})
        /\ (linker.obj.gen /\ ~linker.obj.linked) => ~linker.inst.alive

C11_Step ==
    linker'.op = "~shader" => (linker'.inst = linker.inst /\ linker'.obj = linker.obj)

OwnRecord(k) ==
    [key |-> linker.actives[k].base, datatype |-> linker.actives[k].type,
     size |-> ReportedSize(linker.actives[k]), location |-> LocationOf(k)]

Outside == {k \in DOMAIN linker.actives : linker.actives[k].block = -1}

\* C12 (as stated): after linking, the uniform table holds exactly one record
\* for each active uniform outside a block, keyed by its name and carrying
\* its own type, size and location, the attribute table one record for each
\* active attribute that is no built-in; get_uniform and get_attribute
\* succeed exactly for those names, and no later operation changes the
\* tables.
C12_State ==
    /\ (linker.obj.linked /\ linker.obj.deletes = 0) => linker.inst.alive
    /\ linker.inst.alive =>
          /\ linker.inst.uniforms = {OwnRecord(k) : k \in Outside}
          /\ linker.inst.attributes = AttributesFromProgram(linker.attribs)
          /\ \A name \in BaseNames :
                Lookup(linker.inst.uniforms, name).status = "ok"
                   <=> \E k \in Outside : linker.actives[k].base = name

C12_Step ==
    (linker.inst.alive /\ linker'.inst.alive) => linker'.inst = linker.inst

C12_TablesExact == [](C12_State) /\ [][C12_Step]_vars

\* C26: after move-constructing or move-assigning a program the destination
\* owns the source's handle and answers get_attribute and get_uniform for
\* every name as the source did before the move.
C26_TablesTravel ==
    linker.op \in {"program(program&&)", "operator=(program&&)"} =>
        /\ linker.inst.name = linker.before.name
        /\ \A name \in {"position", "gl_VertexID", "normal"} :
              Lookup(linker.inst.attributes, name) = Lookup(linker.before.attributes, name)
        /\ \A name \in BaseNames :
              Lookup(linker.inst.uniforms, name) = Lookup(linker.before.uniforms, name)

(***************************************************************************)
(* Textures: texture, texture::view over a driver texture object.  An      *)
(* instance keeps its target, immutability flag, base offset, extents and  *)
(* level count; the data calls check them before they reach the driver.    *)
(***************************************************************************)

\* Bounds of the texture model.
MaxTex == 3          \* slots: one texture and its views
UIntBits == 3        \* width of the components of glm::uvec3 in the model
MaxMip == 1          \* the largest level count and mip index

TexSlots == 1..MaxTex
UIntMod == 2 ^ UIntBits

TexTargets == {"GL_TEXTURE_2D", "GL_TEXTURE_CUBE_MAP", "GL_TEXTURE_2D_MULTISAMPLE"}

\* texture_traits::is_multisample, is_cubemap, rank
TexIsMultisample(t) == t \in {"GL_TEXTURE_2D_MULTISAMPLE", "GL_TEXTURE_2D_MULTISAMPLE_ARRAY"}
TexIsCubemapNever(t) == FALSE
TexIsCubemap(t) == t \in {"GL_TEXTURE_CUBE_MAP", "GL_TEXTURE_CUBE_MAP_ARRAY"}
TexRank(t) ==
    CASE t \in {"GL_TEXTURE_1D", "GL_TEXTURE_BUFFER"} -> 1
      [] t \in {"GL_TEXTURE_1D_ARRAY", "GL_TEXTURE_2D", "GL_TEXTURE_2D_MULTISAMPLE",
                "GL_TEXTURE_RECTANGLE"} -> 2
      [] t \in {"GL_TEXTURE_2D_ARRAY", "GL_TEXTURE_2D_MULTISAMPLE_ARRAY", "GL_TEXTURE_3D",
                "GL_TEXTURE_CUBE_MAP", "GL_TEXTURE_CUBE_MAP_ARRAY"} -> 3
      [] OTHER -> 0

\* texture::extents values a caller passes: sizes, and offsets of views
\* (the last one at the top of the component type).
TexExtents ==
    {<<0, 0>>, <<1, 0>>, <<1, 1>>, <<0, 0, 6>>, <<1, 0, 6>>, <<1, 1, 6>>, <<1, 1, 1>>}
TexOffsets == {<<0, 0>>, <<0, 0, 0>>, <<0, 0, 5>>, <<0, 0, UIntMod - 1>>}

\* extents::get(fill): the three components, unused ones set to fill.
ExtentsGet(es, fill) == [k \in 1..3 |-> IF k <= Len(es) THEN es[k] ELSE fill]

\* What a member holds that no constructor initialized.
Indeterminate == [extents : {<<0, 0, 0>>, <<1, 0, 1>>, <<1, 1, 1>>}, levels : {0, 1}]

NoTex == [alive |-> FALSE]
NoCall == [fn |-> "none", face |-> -1, mip |-> 0]

TexDone(op, status, at, mip, fits, call, insts) ==
    [op |-> op, status |-> status, at |-> at, mip |-> mip, fits |-> fits,
     call |-> call, insts |-> insts]

TexInit == texs = TexDone("none", "ok", 0, 0, TRUE, NoCall, [i \in TexSlots |-> NoTex])

TexRunning == texs.status # "assert"

\* A failed assert ends the process.
TexAbort(op) ==
    texs' = TexDone(op, "assert", 0, 0, TRUE, NoCall, [i \in TexSlots |-> NoTex])

\* texture::is_empty: the size is zero across all dimensions.
TexIsEmpty(t) == \A k \in 1..3 : t.extents[k] = 0

TexRoot(target, immutable, extents, levels) ==
    [alive |-> TRUE, view |-> FALSE, target |-> target, immutable |-> immutable,
     base |-> <<0, 0, 0>>, extents |-> extents, levels |-> levels]

\* The constructors of a texture: immutable() and its private constructor,
\* multisample() and its private constructor, and texture(GLenum), which
\* leaves m_extents and m_levels without a value.
TexCreate(how, target, es, n) ==
    /\ TexRunning
    /\ UNCHANGED <<lifeVars, bufVars, uniVars, linker, fmts, traits, mapper>>
    /\ \A i \in TexSlots : ~texs.insts[i].alive
    /\ LET built(t) == TexDone(how, "ok", 1, 0, TRUE, NoCall, [texs.insts EXCEPT ![1] = t])
           dim == ExtentsGet(es, 1)
       IN  CASE how = "immutable" ->
                  IF /\ ~TexIsMultisample(target)
                     /\ Len(es) = TexRank(target)
                     /\ n > 0
                     /\ (target # "GL_TEXTURE_CUBE_MAP" \/ dim[3] = 6)
                     /\ (target # "GL_TEXTURE_CUBE_MAP_ARRAY" \/ dim[3] % 6 = 0)
                  THEN texs' = built(TexRoot(target, TRUE, dim, n))
                  ELSE TexAbort(how)
             [] how = "multisample" ->
                  IF TexIsMultisample(target) /\ n > 0
                  THEN texs' = built(TexRoot(target, TRUE, dim, 1))
                  ELSE TexAbort(how)
             [] how = "texture" ->
                  IF ~TexIsMultisample(target)
                  THEN \E u \in Indeterminate :
                          texs' = built(TexRoot(target, FALSE, u.extents, u.levels))
                  ELSE TexAbort(how)

\* texture::set(ifmt, extents, mips), whose body ends after its asserts, and
\* texture::set(ifmt, extents, begin, end, format); `fits` tells whether the
\* data has the size of the extents in the format.
TexSet(data, es, mips, fits) ==
    /\ TexRunning
    /\ UNCHANGED <<lifeVars, bufVars, uniVars, linker, fmts, traits, mapper>>
    /\ texs.insts[1].alive
    /\ LET t == texs.insts[1]
           out(status, call, new) ==
               TexDone("set", status, 1, 0, fits, call, [texs.insts EXCEPT ![1] = new])
       IN  IF ~data
           THEN IF ~t.immutable /\ mips > 0 THEN texs' = out("ok", NoCall, t)
                ELSE TexAbort("set")
           ELSE IF t.immutable \/ ~fits \/ TexIsCubemap(t.target) \/ TexRank(t.target) # Len(es)
                THEN texs' = out("error", NoCall, t)
                ELSE IF \A k \in DOMAIN es : es[k] = 0
                THEN texs' = out("ok", NoCall, t)
                ELSE IF \E k \in 1..3 : ExtentsGet(es, 1)[k] = 0
                THEN texs' = out("error", NoCall, t)
                ELSE texs' = out("ok", [fn |-> "glTexImage", face |-> -1, mip |-> 0],
                                 [t EXCEPT !.extents = ExtentsGet(es, 1), !.levels = 1])

\* glm::uvec3 addition.
UAdd(a, b) == [k \in 1..3 |-> (a[k] + b[k]) % UIntMod]

\* texture::texture(const texture&, offset, size) behind make_view and the
\* view constructors.
TexMakeView(i, j, offset, size) ==
    /\ TexRunning
    /\ UNCHANGED <<lifeVars, bufVars, uniVars, linker, fmts, traits, mapper>>
    /\ texs.insts[i].alive
    /\ ~texs.insts[j].alive /\ \A k \in 1..(j - 1) : texs.insts[k].alive
    /\ LET t == texs.insts[i]
           rank == TexRank(t.target)
           bs == ExtentsGet(offset, 0)
           es == ExtentsGet(size, 1)
       IN  IF /\ Len(offset) = rank /\ Len(size) = rank
              /\ ~\E k \in 1..3 : UAdd(bs, es)[k] > t.extents[k]
           THEN texs' = TexDone("make_view", "ok", j, 0, TRUE, NoCall,
                           [texs.insts EXCEPT ![j] =
                               [t EXCEPT !.view = TRUE, !.base = UAdd(t.base, bs),
                                         !.extents = es]])
           ELSE TexAbort("make_view")

\* The target glTexSubImage is called with: a face for a cubemap.
UpdateCall(t, mip) ==
    IF t.target = "GL_TEXTURE_CUBE_MAP"
    THEN [fn |-> "glTexSubImage2D", face |-> t.base[3], mip |-> mip]
    ELSE [fn |-> "glTexSubImage", face |-> -1, mip |-> mip]

\* texture::update(mip, begin, end, format)
TexUpdate(i, mip, fits) ==
    /\ TexRunning
    /\ UNCHANGED <<lifeVars, bufVars, uniVars, linker, fmts, traits, mapper>>
    /\ texs.insts[i].alive
    /\ LET t == texs.insts[i]
           out(status, call) == TexDone("update", status, i, mip, fits, call, texs.insts)
       IN  IF \/ mip >= t.levels
              \/ ~fits
              \/ TexIsMultisample(t.target)
              \/ (TexIsCubemap(t.target) /\ t.extents[3] # 1)
           THEN texs' = out("error", NoCall)
           ELSE IF TexIsEmpty(t) THEN texs' = out("ok", NoCall)
           ELSE texs' = out("ok", UpdateCall(t, mip))

\* texture::clear(mip, value, format)
TexClear(i, mip) ==
    /\ TexRunning
    /\ UNCHANGED <<lifeVars, bufVars, uniVars, linker, fmts, traits, mapper>>
    /\ texs.insts[i].alive
    /\ LET t == texs.insts[i]
           out(status, call) == TexDone("clear", status, i, mip, TRUE, call, texs.insts)
       IN  IF mip >= t.levels THEN texs' = out("error", NoCall)
           ELSE IF TexIsEmpty(t) THEN texs' = out("ok", NoCall)
           ELSE texs' = out("ok", [fn |-> "glClearTexSubImage", face |-> -1, mip |-> mip])

\* ~basic_view, ~texture: the last instance made goes first.
TexDestroy(i) ==
    /\ TexRunning
    /\ UNCHANGED <<lifeVars, bufVars, uniVars, linker, fmts, traits, mapper>>
    /\ texs.insts[i].alive
    /\ \A k \in TexSlots : k > i => ~texs.insts[k].alive
    /\ texs' = TexDone("destroy", "ok", 0, 0, TRUE, NoCall, [texs.insts EXCEPT ![i] = NoTex])

TexNext ==
    \/ \E how \in {"immutable", "multisample", "texture"}, target \in TexTargets,
          es \in TexExtents, n \in 0..MaxMip : TexCreate(how, target, es, n)
    \/ \E es \in TexExtents, mips \in 0..1 : TexSet(FALSE, es, mips, TRUE)
    \/ \E es \in TexExtents, fits \in BOOLEAN : TexSet(TRUE, es, 1, fits)
    \/ \E i, j \in TexSlots, offset \in TexOffsets, size \in TexExtents :
          TexMakeView(i, j, offset, size)
    \/ \E i \in TexSlots, mip \in 0..MaxMip, fits \in BOOLEAN : TexUpdate(i, mip, fits)
    \/ \E i \in TexSlots, mip \in 0..MaxMip : TexClear(i, mip)
    \/ \E i \in TexSlots : TexDestroy(i)

TexStart ==
    /\ TexInit /\ LifeInit /\ LifeIdleBuf /\ UniIdle
    /\ linker = Idle /\ fmts = Idle /\ traits = Idle /\ mapper = Idle

SpecTex == TexStart /\ [][TexNext]_vars

(***************************************************************************)
(* Claims about textures.                                                  *)
(***************************************************************************)

\* C14: update reports an error and reaches no driver call when the mip
\* index is not below the level count (clear does the same), when the
\* target is multisample, or when the target is a cubemap and the z extent
\* of the instance is not 1; an update of fitting data through a view of one
\* face (z extent 1, z offset below 6) of an immutable six-layer cubemap
\* succeeds and writes the face its z offset selects; an update or clear
\* that reports an error leaves every instance as it was.
C14_State ==
    texs.op \in {"update", "clear"} =>
       LET t == texs.insts[texs.at]
           rejected == texs.status = "error" /\ texs.call = NoCall
       IN  /\ texs.mip >= t.levels => rejected
           /\ (/\ texs.op = "update"
               /\ t.target \in {"GL_TEXTURE_2D_MULTISAMPLE", "GL_TEXTURE_2D_MULTISAMPLE_ARRAY"})
                 => rejected
           /\ (/\ texs.op = "update"
               /\ t.target \in {"GL_TEXTURE_CUBE_MAP", "GL_TEXTURE_CUBE_MAP_ARRAY"}
               /\ t.extents[3] # 1) => rejected
           /\ (/\ texs.op = "update" /\ texs.fits /\ texs.mip < t.levels
               /\ t.view /\ t.immutable /\ t.target = "GL_TEXTURE_CUBE_MAP"
               /\ t.extents = <<1, 1, 1>> /\ t.base[3] < 6) =>
                  /\ texs.status = "ok"
                  /\ texs.call.fn = "glTexSubImage2D"
                  /\ texs.call.face = t.base[3]
                  /\ texs.call.face \in 0..5

C14_Step ==
    (texs'.op \in {"update", "clear"} /\ texs'.status = "error") => texs'.insts = texs.insts

C15_NoPartialZero ==
    \A i \in TexSlots :
       texs.insts[i].alive =>
          \/ \A k \in 1..3 : texs.insts[i].extents[k] = 0
          \/ \A k \in 1..3 : texs.insts[i].extents[k] # 0

(***************************************************************************)
(* Vertex and pixel formats: vertex_format, vertex_array::set_attribute    *)
(* and pixel_format.  `fmts` holds the vertex_format and the pixel_format  *)
(* constructed last, the glVertexAttrib*Pointer calls the last operation   *)
(* made, and those arguments of the last operation the claims refer to     *)
(* (`arg`).                                                                *)
(***************************************************************************)
MaxArray == 2        \* the largest array extent passed to vertex_format

\* Component datatypes; size_of(GL_NONE) is 0.
VertexTypes == {"GL_FLOAT", "GL_DOUBLE", "GL_NONE"}

\* vertex_format::packing values: the default and an interleaved layout
\* whose stride is smaller than the larger formats.
Packings == {[stride |-> 0, offset |-> 0], [stride |-> 24, offset |-> 8]}

\* Extents passed to vertex_format(GLenum, extents, packing).
VertexExtents ==
    {es \in (0..5) \X (0..MaxArray) : es[1] # 2 /\ (es[1] \in {0, 5} => es[2] = 1)}

\* Shapes of tensor_decay_t<T> for a member: a scalar, T[n], T[n][c].
MemberShapes == {<<>>, <<3>>, <<4>>, <<5>>, <<2, 3>>}

NoVertexFormat ==
    [made |-> "none", datatype |-> "GL_NONE", extents |-> <<0, 0>>,
     packing |-> [stride |-> 0, offset |-> 0]]

\* `made` and `from` are history: the constructor used and the image format
\* (or the component count, for from_type) it was given.
NoPixelFormat ==
    [made |-> "none", from |-> "GL_NONE", format |-> "GL_NONE", datatype |-> "GL_NONE"]

NoArg == [k |-> "none"]

FmtInit ==
    fmts = [op |-> "none", status |-> "ok", vf |-> NoVertexFormat,
            calls |-> <<>>, pf |-> NoPixelFormat, arg |-> NoArg]

FmtRunning == fmts.status # "assert"

\* A failed assert aborts the process.
FmtAbort(op) ==
    fmts' = [op |-> op, status |-> "assert", vf |-> NoVertexFormat,
             calls |-> <<>>, pf |-> NoPixelFormat, arg |-> NoArg]

\* A constructor that throws leaves no new object: the formats held stay.
FmtThrow(op) ==
    fmts' = [fmts EXCEPT !.op = op, !.status = "error", !.arg = NoArg, !.calls = <<>>]

\* The body of vertex_format::vertex_format(GLenum datatype, extents es,
\* packing pack), reached as operation op with the arguments arg recorded.
VertexFormatBody(datatype, es, pack, op, arg) ==
    LET format_size == SizeOf(datatype) * es[1] * es[2]
        stride == IF pack.stride = 0 THEN format_size ELSE pack.stride
        throw == [fmts EXCEPT !.op = op, !.status = "error", !.arg = arg, !.calls = <<>>]
    IN  IF es[1] = 0 \/ es[2] = 0 \/ es[1] > 4
        THEN fmts' = throw
        ELSE IF ~(format_size > 0)
        THEN FmtAbort(op)
        ELSE IF format_size > stride
        THEN fmts' = throw
        ELSE fmts' = [fmts EXCEPT
                 !.op = op, !.status = "ok", !.arg = arg, !.calls = <<>>,
                 !.vf = [made |-> "ctor", datatype |-> datatype,
                         extents |-> <<es[1], IF datatype = "GL_DOUBLE"
                                              THEN es[2] * 2 ELSE es[2]>>,
                         packing |-> [pack EXCEPT !.stride = stride]]]

\* vertex_format::vertex_format(GLenum datatype, extents es, packing pack)
VertexFormat(datatype, es, pack) ==
    /\ FmtRunning
    /\ UNCHANGED <<lifeVars, bufVars, uniVars, linker, texs, traits, mapper>>
    /\ VertexFormatBody(datatype, es, pack, "vertex_format", NoArg)

\* Type enumerations passed to vertex_format(GLenum).
TypeEnums ==
    {"GL_FLOAT", "GL_INT_VEC2", "GL_FLOAT_VEC3", "GL_DOUBLE_VEC3",
     "GL_FLOAT_MAT2x3", "GL_FLOAT_MAT4", "GL_DOUBLE_MAT2"}

\* gl::extent(e, n)
EnumExtent(e, n) ==
    CASE e = "GL_INT_VEC2" -> IF n = 0 THEN 2 ELSE 0
      [] e \in {"GL_FLOAT_VEC3", "GL_DOUBLE_VEC3"} -> IF n = 0 THEN 3 ELSE 0
      [] e = "GL_DOUBLE_MAT2" -> IF n < 2 THEN 2 ELSE 0
      [] e = "GL_FLOAT_MAT2x3" -> IF n = 1 THEN 2 ELSE IF n = 0 THEN 3 ELSE 0
      [] e = "GL_FLOAT_MAT4" -> IF n < 2 THEN 4 ELSE 0
      [] OTHER -> 0

\* gl::remove_all_extents
RemoveAllExtents(e) ==
    CASE e = "GL_INT_VEC2" -> "GL_INT"
      [] e \in {"GL_FLOAT_VEC3", "GL_FLOAT_MAT2x3", "GL_FLOAT_MAT4"} -> "GL_FLOAT"
      [] e \in {"GL_DOUBLE_VEC3", "GL_DOUBLE_MAT2"} -> "GL_DOUBLE"
      [] OTHER -> e

\* vertex_format::vertex_format(GLenum e)
VertexFormatEnum(e) ==
    /\ FmtRunning
    /\ UNCHANGED <<lifeVars, bufVars, uniVars, linker, texs, traits, mapper>>
    /\ VertexFormatBody(RemoveAllExtents(e), <<EnumExtent(e, 0), EnumExtent(e, 1)>>,
                        [stride |-> 0, offset |-> 0],
                        "vertex_format enum", [k |-> "enum", e |-> e])

\* vertex_format::vertex_format(T Vertex::*member, bool force_array): shape
\* is that of tensor_decay_t<T>, stride is sizeof(Vertex) and offset is
\* offset_of(member).
MemberExtents(shape, force_array) ==
    CASE Len(shape) = 2 -> <<shape[2], shape[1]>>
      [] Len(shape) = 1 -> IF shape[1] > 4 \/ force_array
                           THEN <<1, shape[1]>> ELSE <<shape[1], 1>>
      [] OTHER -> <<1, 1>>

VertexFormatMember(datatype, shape, force_array, stride, offset) ==
    /\ FmtRunning
    /\ UNCHANGED <<lifeVars, bufVars, uniVars, linker, texs, traits, mapper>>
    /\ datatype # "GL_NONE"
    /\ fmts' = [fmts EXCEPT
          !.op = "vertex_format member", !.status = "ok", !.calls = <<>>,
          !.arg = [k |-> "member", shape |-> shape, force_array |-> force_array],
          !.vf = [made |-> "member", datatype |-> datatype,
                  extents |-> MemberExtents(shape, force_array),
                  packing |-> [stride |-> stride, offset |-> offset]]]

SlotComponentsWhole(type, cs, i) == cs

\* The component count vertex_array::set_attribute passes for slot i.
SlotComponents(type, cs, i) ==
    IF type = "GL_DOUBLE"
    THEN IF cs = 3 THEN (IF i % 2 # 0 THEN 1 ELSE 2)
         ELSE IF cs = 4 THEN 2 ELSE cs
    ELSE cs

\* The loop of vertex_array::set_attribute from slot i on: the calls
\* glEnableVertexAttribArray(index) and glVertexAttrib*Pointer(index, cs,
\* type, ..., stride, offset).
RECURSIVE SlotLoop(_, _, _, _)
SlotLoop(i, location, f, offset) ==
    IF i = f.extents[2]
    THEN <<>>
    ELSE LET cs == SlotComponents(f.datatype, f.extents[1], i)
         IN  <<[index |-> location + i, size |-> cs, type |-> f.datatype,
                stride |-> f.packing.stride, pointer |-> offset]>>
             \o SlotLoop(i + 1, location, f, offset + SizeOf(f.datatype) * cs)

\* vertex_array::set_attribute(a, f, v) on a valid vertex array, with the
\* vertex_format held: a has the location and, when annotated, the size
\* given; v is a view at voffset of a buffer of the target given.
SetAttribute(location, annotated, size, target, voffset) ==
    /\ FmtRunning
    /\ UNCHANGED <<lifeVars, bufVars, uniVars, linker, texs, traits, mapper>>
    /\ fmts.vf.made # "none"
    /\ LET f == fmts.vf
           arg == [k |-> "set_attribute", location |-> location, voffset |-> voffset]
       IN  IF target # "GL_ARRAY_BUFFER"
           THEN FmtThrow("set_attribute")
           ELSE IF annotated /\ size # f.extents[2]
           THEN FmtThrow("set_attribute")
           ELSE fmts' = [fmts EXCEPT !.op = "set_attribute", !.status = "ok", !.arg = arg,
                             !.calls = SlotLoop(0, location, f, voffset + f.packing.offset)]

\* Image formats passed to pixel_format.
ImageFormats ==
    {"GL_RED", "GL_RG", "GL_RGB", "GL_RGBA", "GL_RGB_INTEGER", "GL_RGBA_INTEGER",
     "GL_BGR", "GL_BGRA", "GL_BGR_INTEGER", "GL_BGRA_INTEGER",
     "GL_R8", "GL_RGB8",
     "GL_R3_G3_B2", "GL_RGB5_A1", "GL_RGB10_A2", "GL_RGB565",
     "GL_DEPTH_COMPONENT16", "GL_STENCIL_INDEX8", "GL_DEPTH24_STENCIL8"}

\* The datatype switch of format_traits::reverse.
ReverseDatatype(t) ==
    CASE t = "GL_UNSIGNED_BYTE_3_3_2" -> "GL_UNSIGNED_BYTE_2_3_3_REV"
      [] t = "GL_UNSIGNED_SHORT_5_6_5" -> "GL_UNSIGNED_SHORT_5_6_5_REV"
      [] t = "GL_UNSIGNED_SHORT_4_4_4_4" -> "GL_UNSIGNED_SHORT_4_4_4_4_REV"
      [] t = "GL_UNSIGNED_SHORT_5_5_5_1" -> "GL_UNSIGNED_SHORT_1_5_5_5_REV"
      [] t = "GL_UNSIGNED_INT_8_8_8_8" -> "GL_UNSIGNED_INT_8_8_8_8_REV"
      [] t = "GL_UNSIGNED_INT_10_10_10_2" -> "GL_UNSIGNED_INT_2_10_10_10_REV"
      [] t = "GL_UNSIGNED_BYTE_2_3_3_REV" -> "GL_UNSIGNED_BYTE_3_3_2"
      [] t = "GL_UNSIGNED_SHORT_5_6_5_REV" -> "GL_UNSIGNED_SHORT_5_6_5"
      [] t = "GL_UNSIGNED_SHORT_4_4_4_4_REV" -> "GL_UNSIGNED_SHORT_4_4_4_4"
      [] t = "GL_UNSIGNED_SHORT_1_5_5_5_REV" -> "GL_UNSIGNED_SHORT_5_5_5_1"
      [] t = "GL_UNSIGNED_INT_8_8_8_8_REV" -> "GL_UNSIGNED_INT_8_8_8_8"
      [] t = "GL_UNSIGNED_INT_2_10_10_10_REV" -> "GL_UNSIGNED_INT_10_10_10_2"
      [] OTHER -> "GL_NONE"

ReverseFormatNone(f) == "GL_NONE"

\* The format switch of format_traits::reverse.
ReverseFormat(f) ==
    CASE f = "GL_RGB" -> "GL_BGR"
      [] f = "GL_RGB_INTEGER" -> "GL_BGR_INTEGER"
      [] f = "GL_RGBA" -> "GL_BGRA"
      [] f = "GL_RGBA_INTEGER" -> "GL_BGRA_INTEGER"
      [] f = "GL_BGR" -> "GL_RGB"
      [] f = "GL_BGR_INTEGER" -> "GL_RGB_INTEGER"
      [] f = "GL_BGRA" -> "GL_RGBA"
      [] f = "GL_BGRA_INTEGER" -> "GL_RGBA_INTEGER"
      [] OTHER -> "GL_NONE"

\* format_traits::reverse: the pair (format, datatype).
Reverse(e) ==
    LET f == RemoveSize(e)
        t == UnderlyingDatatype(e)
        datatype == ReverseDatatype(t)
        format == ReverseFormat(f)
    IN  IF datatype # "GL_NONE" THEN <<f, datatype>>
        ELSE IF format # "GL_NONE" THEN <<format, t>>
        ELSE <<"GL_NONE", "GL_NONE">>

\* pixel_format::pixel_format(GLenum image_format, bool reverse)
PixelFormat(image_format, reverse) ==
    /\ FmtRunning
    /\ UNCHANGED <<lifeVars, bufVars, uniVars, linker, texs, traits, mapper>>
    /\ LET arg == [k |-> "pixel_format", e |-> image_format, reverse |-> reverse]
           made(f, t) == [made |-> "image", from |-> image_format,
                          format |-> f, datatype |-> t]
       IN  IF reverse
           THEN IF Reverse(image_format)[1] = "GL_NONE"
                THEN fmts' = [fmts EXCEPT !.op = "pixel_format", !.status = "error",
                                  !.arg = arg, !.calls = <<>>]
                ELSE fmts' = [fmts EXCEPT !.op = "pixel_format", !.status = "ok",
                                  !.arg = arg, !.calls = <<>>,
                                  !.pf = made(Reverse(image_format)[1],
                                              Reverse(image_format)[2])]
           ELSE fmts' = [fmts EXCEPT !.op = "pixel_format", !.status = "ok",
                             !.arg = arg, !.calls = <<>>,
                             !.pf = made(RemoveSize(image_format),
                                         UnderlyingDatatype(image_format))]

\* The switch of pixel_format::from_type: control enters at the case of the
\* component count and, there being no break, runs every later assignment.
FromTypeFormat(component_count) ==
    LET assigned == <<"GL_RED", "GL_RED", "GL_RG", "GL_RGB", "GL_RGBA">>
        run == SubSeq(assigned, component_count + 1, Len(assigned))
    IN  IF run = <<>> THEN "GL_NONE" ELSE run[Len(run)]

\* pixel_format::from_type<T>(reverse), through the private constructor
\* pixel_format(format, type, reverse): component is make_enum_v of the
\* element type and component_count the extent of tensor_decay_t<T>, 0 for a
\* scalar.
FromType(component, component_count, reverse) ==
    /\ FmtRunning
    /\ UNCHANGED <<lifeVars, bufVars, uniVars, linker, texs, traits, mapper>>
    /\ LET format == FromTypeFormat(component_count)
           arg == [k |-> "from_type", e |-> format, reverse |-> reverse]
           made(f) == [made |-> "from_type", from |-> component_count,
                       format |-> f, datatype |-> component]
       IN  IF reverse /\ Reverse(format)[1] = "GL_NONE"
           THEN fmts' = [fmts EXCEPT !.op = "from_type", !.status = "error",
                             !.arg = arg, !.calls = <<>>]
           ELSE fmts' = [fmts EXCEPT !.op = "from_type", !.status = "ok",
                             !.arg = arg, !.calls = <<>>,
                             !.pf = made(IF reverse THEN Reverse(format)[1]
                                         ELSE RemoveSize(format))]

\* pixel_format::get_size of the pixel_format held.
GetSize ==
    /\ FmtRunning
    /\ UNCHANGED <<lifeVars, bufVars, uniVars, linker, texs, traits, mapper>>
    /\ fmts.pf.made # "none"
    /\ LET datasize == SizeOf(fmts.pf.datatype)
       IN  IF datasize = 0
           THEN FmtAbort("get_size")
           ELSE fmts' = [fmts EXCEPT !.op = "get_size", !.status = "ok", !.calls = <<>>,
                    !.arg = [k |-> "get_size",
                             size |-> IF IsPacked(fmts.pf.datatype) THEN datasize
                                      ELSE datasize * FormatExtent(fmts.pf.format)]]

FmtNext ==
    \/ \E datatype \in VertexTypes, es \in VertexExtents, pack \in Packings :
          VertexFormat(datatype, es, pack)
    \/ \E e \in TypeEnums : VertexFormatEnum(e)
    \/ \E datatype \in VertexTypes, shape \in MemberShapes, force_array \in BOOLEAN :
          VertexFormatMember(datatype, shape, force_array, 24, 8)
    \/ \E at \in {<<0, 0>>, <<2, 16>>}, annotated \in BOOLEAN, size \in 1..2,
          target \in {"GL_ARRAY_BUFFER", "GL_ELEMENT_ARRAY_BUFFER"} :
          SetAttribute(at[1], annotated, size, target, at[2])
    \/ \E e \in ImageFormats, reverse \in BOOLEAN : PixelFormat(e, reverse)
    \/ \E component \in {"GL_UNSIGNED_BYTE", "GL_FLOAT"}, n \in 0..5, reverse \in BOOLEAN :
          FromType(component, n, reverse)
    \/ GetSize

FmtStart ==
    /\ FmtInit /\ LifeInit /\ LifeIdleBuf /\ UniIdle
    /\ linker = Idle /\ texs = Idle /\ traits = Idle /\ mapper = Idle

SpecFmt == FmtStart /\ [][FmtNext]_vars

(***************************************************************************)
(* Claims about vertex formats and attribute binding.                      *)
(***************************************************************************)
\* The components of slot i (from 0) of a format with c components.
C16_Components(type, c, i) ==
    CASE type = "GL_DOUBLE" /\ c = 3 -> (IF i % 2 = 0 THEN 2 ELSE 1)
      [] type = "GL_DOUBLE" /\ c = 4 -> 2
      [] OTHER -> c

RECURSIVE C16_Before(_, _, _)
\* The bytes of the slots before slot i.
C16_Before(type, c, i) ==
    IF i = 0 THEN 0
    ELSE C16_Before(type, c, i - 1) + SizeOf(type) * C16_Components(type, c, i - 1)

\* C16: an accepted set_attribute configures exactly the consecutive slots
\* location, ..., location + slots - 1, slots being the format's slot count;
\* slot i gets byte offset view offset + packing offset + the bytes of the
\* earlier slots, and as many components as the format has, except that
\* double data of 3 components alternates 2 and 1 and double data of 4
\* components uses 2 on every slot.
C16_SlotsConfigured ==
    (fmts.op = "set_attribute" /\ fmts.status = "ok") =>
        LET f == fmts.vf
            a == fmts.arg
        IN  /\ Len(fmts.calls) = f.extents[2]
            /\ \A k \in 1..Len(fmts.calls) :
                  /\ fmts.calls[k].index = a.location + (k - 1)
                  /\ fmts.calls[k].size = C16_Components(f.datatype, f.extents[1], k - 1)
                  /\ fmts.calls[k].pointer =
                        a.voffset + f.packing.offset
                        + C16_Before(f.datatype, f.extents[1], k - 1)

\* An interleaved three-component double format bound at a view offset:
\* two slots, of 2 and of 1 components.
C16_Witness ==
    /\ fmts.op = "set_attribute" /\ fmts.status = "ok"
    /\ fmts.vf.datatype = "GL_DOUBLE" /\ fmts.vf.extents = <<3, 2>>
    /\ fmts.vf.packing.offset = 8 /\ fmts.arg.voffset = 16 /\ fmts.arg.location = 2
    /\ Len(fmts.calls) = 2
    /\ fmts.calls[1].size = 2 /\ fmts.calls[2].size = 1
    /\ fmts.calls[2].index = 3 /\ fmts.calls[2].pointer = 40

\* C17: a vertex_format derived from a member pointer reports 2 slots for a
\* double member of 3 components, 2 slots for a double member of 4
\* components, and 1 slot for a member of another type with at most 4
\* components that is treated as a vector.
C17_MemberSlots ==
    (fmts.op = "vertex_format member" /\ Len(fmts.arg.shape) = 1 /\ ~fmts.arg.force_array) =>
        /\ (fmts.vf.datatype = "GL_DOUBLE" /\ fmts.arg.shape[1] \in {3, 4})
              => fmts.vf.extents[2] = 2
        /\ (fmts.vf.datatype # "GL_DOUBLE" /\ fmts.arg.shape[1] <= 4)
              => fmts.vf.extents[2] = 1

(***************************************************************************)
(* Claims about pixel formats.                                             *)
(***************************************************************************)
\* The components of a tensor type whose extent is n: a scalar counts as 1.
C18_Count(n) == IF n = 0 THEN 1 ELSE n

\* C18: for a tensor type of n components (1 to 4, a scalar counting as 1)
\* of element type T, from_type yields a format whose channel extent is n
\* and whose get_size() is n * sizeof(T).
C18_FromTypeExtent ==
    (fmts.pf.made = "from_type" /\ fmts.pf.from <= 4 /\ fmts.arg.k \in {"from_type", "get_size"}
       /\ fmts.status = "ok") =>
        /\ FormatExtent(fmts.pf.format) = C18_Count(fmts.pf.from)
        /\ fmts.op = "get_size" =>
              fmts.arg.size = C18_Count(fmts.pf.from) * SizeOf(fmts.pf.datatype)

\* The reversed form of an unsized format, where it has one.
C19_Reversed(f) ==
    CASE f = "GL_RGB" -> "GL_BGR"
      [] f = "GL_BGR" -> "GL_RGB"
      [] f = "GL_RGBA" -> "GL_BGRA"
      [] f = "GL_BGRA" -> "GL_RGBA"
      [] f = "GL_RGB_INTEGER" -> "GL_BGR_INTEGER"
      [] f = "GL_BGR_INTEGER" -> "GL_RGB_INTEGER"
      [] f = "GL_RGBA_INTEGER" -> "GL_BGRA_INTEGER"
      [] f = "GL_BGRA_INTEGER" -> "GL_RGBA_INTEGER"
      [] OTHER -> "GL_NONE"

\* Each packed datatype with its _REV counterpart.
C19_PackedPairs ==
    {<<"GL_UNSIGNED_BYTE_3_3_2", "GL_UNSIGNED_BYTE_2_3_3_REV">>,
     <<"GL_UNSIGNED_SHORT_5_6_5", "GL_UNSIGNED_SHORT_5_6_5_REV">>,
     <<"GL_UNSIGNED_SHORT_4_4_4_4", "GL_UNSIGNED_SHORT_4_4_4_4_REV">>,
     <<"GL_UNSIGNED_SHORT_5_5_5_1", "GL_UNSIGNED_SHORT_1_5_5_5_REV">>,
     <<"GL_UNSIGNED_INT_8_8_8_8", "GL_UNSIGNED_INT_8_8_8_8_REV">>,
     <<"GL_UNSIGNED_INT_10_10_10_2", "GL_UNSIGNED_INT_2_10_10_10_REV">>}

\* The packed image formats of the model with the datatype of each.
C19_PackedFormats ==
    {<<"GL_R3_G3_B2", "GL_UNSIGNED_BYTE_3_3_2">>,
     <<"GL_RGB565", "GL_UNSIGNED_SHORT_5_6_5">>,
     <<"GL_RGB5_A1", "GL_UNSIGNED_SHORT_5_5_5_1">>,
     <<"GL_RGB10_A2", "GL_UNSIGNED_INT_10_10_10_2">>}

\* Formats with no reversed form.
C19_Irreversible ==
    {"GL_RED", "GL_RG", "GL_R8", "GL_DEPTH_COMPONENT16", "GL_STENCIL_INDEX8",
     "GL_DEPTH24_STENCIL8"}

\* C19: reversal maps RGB to BGR and RGBA to BGRA (and the _INTEGER forms)
\* and back, so that reversing an unsized reversible format twice returns
\* it; it maps each packed datatype to its _REV counterpart and back; and
\* constructing a reversed pixel_format from a format with no reversed form
\* reports an error.
C19_Reversal ==
    /\ \A p \in C19_PackedPairs :
          ReverseDatatype(p[1]) = p[2] /\ ReverseDatatype(p[2]) = p[1]
    /\ (fmts.op = "pixel_format" /\ fmts.arg.reverse) =>
          LET e == fmts.arg.e
          IN  /\ C19_Reversed(e) # "GL_NONE" =>
                    /\ fmts.status = "ok"
                    /\ fmts.pf.format = C19_Reversed(e)
                    /\ Reverse(fmts.pf.format)[1] = e
              /\ \A p \in C19_PackedFormats :
                    e = p[1] =>
                       /\ fmts.status = "ok"
                       /\ \E q \in C19_PackedPairs :
                             q[1] = p[2] /\ fmts.pf.datatype = q[2]
              /\ e \in C19_Irreversible => fmts.status = "error"

\* A reversed pixel_format constructed from GL_BGRA, itself the reversed form
\* of GL_RGBA.
C19_Witness ==
    /\ fmts.op = "pixel_format" /\ fmts.status = "ok"
    /\ fmts.arg.reverse /\ fmts.arg.e = "GL_BGRA"
    /\ fmts.pf.format = "GL_RGBA"

\* The pixel_format held was constructed from an image format, not reversed.
PlainImage ==
    /\ fmts.pf.made = "image"
    /\ fmts.pf.format = RemoveSize(fmts.pf.from)
    /\ fmts.pf.datatype = UnderlyingDatatype(fmts.pf.from)

\* C23: pixel_format(image_format) chooses the datatype closest to a sized
\* image format and GL_UNSIGNED_BYTE for an unsized one, so that
\* get_datatype() is never GL_NONE and get_size() is never 0.
C23_DefaultDatatype ==
    /\ (fmts.op = "pixel_format" /\ fmts.status = "ok" /\ ~fmts.arg.reverse) =>
          /\ fmts.pf.datatype # "GL_NONE"
          /\ fmts.arg.e \in {"GL_RED", "GL_RG", "GL_RGB", "GL_RGBA"} =>
                fmts.pf.datatype = "GL_UNSIGNED_BYTE"
          /\ fmts.arg.e = "GL_RGB565" => fmts.pf.datatype = "GL_UNSIGNED_SHORT_5_6_5"
    /\ (fmts.op = "get_size" /\ fmts.status = "ok" /\ PlainImage) => fmts.arg.size # 0

\* The size of a pixel of an image format, not reversed.
C28_PlainSize(e) ==
    LET t == UnderlyingDatatype(e)
    IN  IF IsPacked(t) THEN SizeOf(t) ELSE SizeOf(t) * FormatExtent(e)

\* C28: for a reversible image format the reversed pixel_format has the
\* channel count and the get_size() of the pixel_format that is not
\* reversed, and its size is never 0.
C28_ReversedSameSize ==
    (fmts.op = "get_size" /\ fmts.status = "ok" /\ fmts.pf.made = "image" /\ ~PlainImage) =>
        /\ FormatExtent(fmts.pf.format) = FormatExtent(fmts.pf.from)
        /\ fmts.arg.size = C28_PlainSize(fmts.pf.from)
        /\ fmts.arg.size # 0

\* The array size a vertex_format was constructed with: the constructor
\* from a datatype doubles the slot count of GL_DOUBLE data.
C29_ArraySize(f) ==
    IF f.made = "ctor" /\ f.datatype = "GL_DOUBLE" THEN f.extents[2] \div 2
    ELSE f.extents[2]

RECURSIVE C29_Bound(_, _)
\* The components bound by the calls from call k on.
C29_Bound(calls, k) ==
    IF k > Len(calls) THEN 0 ELSE calls[k].size + C29_Bound(calls, k + 1)

\* C29: the component counts set_attribute binds over the slots of a
\* vertex_format add up to the format's component count times its array
\* size, so that the bytes addressed are the format's size, for double data
\* of every width from 1 to 4.
C29_SlotsCoverFormat ==
    (fmts.op = "set_attribute" /\ fmts.status = "ok") =>
        LET f == fmts.vf
            n == Len(fmts.calls)
        IN  /\ C29_Bound(fmts.calls, 1) = f.extents[1] * C29_ArraySize(f)
            /\ n > 0 =>
                  fmts.calls[n].pointer + SizeOf(f.datatype) * fmts.calls[n].size
                  - fmts.calls[1].pointer
                     = SizeOf(f.datatype) * f.extents[1] * C29_ArraySize(f)

\* The datatype, the component count and the slot count of a type
\* enumeration: the vector width and one slot for scalars and vectors, the
\* column count of slots for matrices.
C24_Expected(e) ==
    CASE e = "GL_FLOAT" -> <<"GL_FLOAT", 1, 1>>
      [] e = "GL_INT_VEC2" -> <<"GL_INT", 2, 1>>
      [] e = "GL_FLOAT_VEC3" -> <<"GL_FLOAT", 3, 1>>
      [] e = "GL_DOUBLE_VEC3" -> <<"GL_DOUBLE", 3, 1>>
      [] e = "GL_FLOAT_MAT2x3" -> <<"GL_FLOAT", 3, 2>>
      [] e = "GL_FLOAT_MAT4" -> <<"GL_FLOAT", 4, 4>>
      [] e = "GL_DOUBLE_MAT2" -> <<"GL_DOUBLE", 2, 2>>

\* C24: vertex_format(e) succeeds for every scalar, vector and matrix
\* enumeration with datatype remove_all_extents(e), the vector width as
\* component count, and 1 slot for scalars and vectors, the column count for
\* matrices.
C24_FromEnum ==
    fmts.op = "vertex_format enum" =>
        /\ fmts.status = "ok"
        /\ fmts.vf.datatype = C24_Expected(fmts.arg.e)[1]
        /\ fmts.vf.extents = <<C24_Expected(fmts.arg.e)[2], C24_Expected(fmts.arg.e)[3]>>

(***************************************************************************)
(* Tensor traits and attributes.  A tensor type is its dimensions, the     *)
(* outermost first, and the size of its arithmetic element type.  `traits` *)
(* holds the trait evaluated last with its value, and two attribute        *)
(* instances a and b; `given` is the location an attribute was constructed *)
(* from (history the claims refer to).                                     *)
(***************************************************************************)
MaxRank == 2         \* the deepest nesting of a tensor type
MaxDim == 3          \* the largest dimension of a tensor type

TensorDims == UNION {[1..r -> 2..MaxDim] : r \in 0..MaxRank}

TensorTypes == [dims : TensorDims, elem : {4}]

RECURSIVE SizeofT(_)
\* sizeof(T)
SizeofT(T) ==
    IF T.dims = <<>> THEN T.elem
    ELSE T.dims[1] * SizeofT([T EXCEPT !.dims = Tail(@)])

\* detail::subscript_t<T>
SubscriptT(T) == [T EXCEPT !.dims = Tail(@)]

\* detail::tensor_array<T>
IsTensorArray(T) == T.dims # <<>>

RECURSIVE TensorRank(_)
\* tensor_rank<T>::value
TensorRank(T) ==
    IF IsTensorArray(T) THEN 1 + TensorRank(SubscriptT(T)) ELSE 0

RECURSIVE TensorExtent(_, _)
\* tensor_extent<T, N>::value
TensorExtent(T, N) ==
    IF ~IsTensorArray(T) THEN 0
    ELSE IF N = 0 THEN SizeofT(T) \div SizeofT(SubscriptT(T))
    ELSE TensorExtent(SubscriptT(T), N - 1)

\* tensor_extent_v<T, N>: the variable template names tensor_extent<T>, whose
\* second parameter defaults to 0.
TensorExtentV(T, N) == TensorExtent(T, 0)

\* Values an uninitialised GLint may hold, and locations passed.
Garbage == {-1, 0, 2}

Locations == {0, 2}

NoAttribute == [made |-> "none", given |-> -1, m_location |-> -1, m_datatype |-> "GL_NONE"]

NoTraits ==
    [op |-> "none", status |-> "ok", T |-> [dims |-> <<>>, elem |-> 4],
     N |-> 0, value |-> 0, a |-> NoAttribute, b |-> NoAttribute]

TraitsInit == traits = NoTraits

TraitsRunning == traits.status # "assert"

\* tensor_rank_v<T> instantiated.
EvalRank(T) ==
    /\ TraitsRunning
    /\ UNCHANGED <<lifeVars, bufVars, uniVars, linker, texs, fmts, mapper>>
    /\ traits' = [traits EXCEPT !.op = "tensor_rank", !.status = "ok", !.T = T,
                                !.N = 0, !.value = TensorRank(T)]

\* tensor_extent<T, N>::value instantiated.
EvalExtent(T, N) ==
    /\ TraitsRunning
    /\ UNCHANGED <<lifeVars, bufVars, uniVars, linker, texs, fmts, mapper>>
    /\ traits' = [traits EXCEPT !.op = "tensor_extent", !.status = "ok", !.T = T,
                                !.N = N, !.value = TensorExtent(T, N)]

\* tensor_extent_v<T, N> instantiated.
EvalExtentV(T, N) ==
    /\ TraitsRunning
    /\ UNCHANGED <<lifeVars, bufVars, uniVars, linker, texs, fmts, mapper>>
    /\ traits' = [traits EXCEPT !.op = "tensor_extent_v", !.status = "ok", !.T = T,
                                !.N = N, !.value = TensorExtentV(T, N)]

\* attribute::attribute(std::size_t location) into slot s: m_location is
\* initialised from itself, so it holds whatever the storage held.
AttributeLocation(s, location, held) ==
    /\ TraitsRunning
    /\ UNCHANGED <<lifeVars, bufVars, uniVars, linker, texs, fmts, mapper>>
    /\ traits' = [traits EXCEPT !.op = "attribute", !.status = "ok",
          ![s] = [made |-> "location", given |-> location, m_location |-> held,
                  m_datatype |-> "GL_NONE"]]

\* attribute::attribute(program, name, type, size) into slot s, found is
\* what glGetAttribLocation returns for the name.
AttributeNamed(s, found, type) ==
    /\ TraitsRunning
    /\ UNCHANGED <<lifeVars, bufVars, uniVars, linker, texs, fmts, mapper>>
    /\ IF found = -1
       THEN traits' = [traits EXCEPT !.op = "attribute", !.status = "error"]
       ELSE traits' = [traits EXCEPT !.op = "attribute", !.status = "ok",
                ![s] = [made |-> "program", given |-> found, m_location |-> found,
                        m_datatype |-> type]]

\* attribute::is_valid
AttributeIsValid(x) == x.m_location # -1

\* attribute::is_annotated, of a valid attribute
AttributeIsAnnotated(x) == x.m_datatype # "GL_NONE"

\* attribute::get, of a valid attribute
AttributeGet(x) == x.m_location

\* std::less<attribute>::operator()(a, b): get() asserts is_valid().
Less ==
    /\ TraitsRunning
    /\ UNCHANGED <<lifeVars, bufVars, uniVars, linker, texs, fmts, mapper>>
    /\ traits.a.made # "none" /\ traits.b.made # "none"
    /\ IF AttributeIsValid(traits.a) /\ AttributeIsValid(traits.b)
       THEN traits' = [traits EXCEPT !.op = "less", !.status = "ok",
                !.value = IF AttributeGet(traits.a) < AttributeGet(traits.b) THEN 1 ELSE 0]
       ELSE traits' = [NoTraits EXCEPT !.op = "less", !.status = "assert"]

TraitsNext ==
    \/ \E T \in TensorTypes : EvalRank(T)
    \/ \E T \in TensorTypes, N \in 0..MaxRank : EvalExtent(T, N)
    \/ \E T \in TensorTypes, N \in 0..MaxRank : EvalExtentV(T, N)
    \/ \E s \in {"a", "b"}, location \in Locations, held \in Garbage :
          AttributeLocation(s, location, held)
    \/ \E s \in {"a", "b"}, found \in Locations \cup {-1},
          type \in {"GL_NONE", "GL_FLOAT_VEC3"} : AttributeNamed(s, found, type)
    \/ Less

TraitsStart ==
    /\ TraitsInit /\ LifeInit /\ LifeIdleBuf /\ UniIdle
    /\ linker = Idle /\ texs = Idle /\ fmts = Idle /\ mapper = Idle

SpecTraits == TraitsStart /\ [][TraitsNext]_vars

(***************************************************************************)
(* Claims about tensor traits and attributes.                              *)
(***************************************************************************)
\* C21: for a nested array-like tensor type, tensor_rank is the nesting
\* depth (0 for a scalar) and tensor_extent_v<T, N> is the size of dimension
\* N for every N below the rank, and 0 for a scalar.
C21_RankAndExtent ==
    /\ traits.op = "tensor_rank" => traits.value = Len(traits.T.dims)
    /\ traits.op = "tensor_extent_v" =>
          /\ traits.N < Len(traits.T.dims) => traits.value = traits.T.dims[traits.N + 1]
          /\ traits.T.dims = <<>> => traits.value = 0

\* C25: an attribute created from a location L is valid, is not annotated
\* and get() returns L; a sorts before b exactly when a.get() < b.get().
C25_FromLocation ==
    /\ \A s \in {"a", "b"} :
          traits[s].made = "location" =>
             /\ AttributeIsValid(traits[s])
             /\ ~AttributeIsAnnotated(traits[s])
             /\ AttributeGet(traits[s]) = traits[s].given
    /\ (traits.op = "less" /\ traits.status = "ok") =>
          (traits.value = 1 <=> traits.a.m_location < traits.b.m_location)


(***************************************************************************)
(* Mappings.  buffer::mapping<T> instances over two buffers that share one *)
(* target.  `mapper` holds the buffers (bufs), the mapping instances (m),  *)
(* the driver (gl, as in the buffer subsystem), the glMapBufferRange calls *)
(* that returned a pointer and the glUnmapBuffer calls the driver received *)
(* per buffer object (mapCalls, unmapCalls), and the last operation.  A    *)
(* pointer is the name of the buffer object whose store it points into and *)
(* an element offset; name 0 is the null pointer.                          *)
(***************************************************************************)
MaxMapBufs == 2      \* buffers, and names the driver hands out
MaxMappings == 2     \* mapping<T> instances
MaxMaps == 2         \* maps followed per buffer object

MapBufs == 1..MaxMapBufs
MapSlots == 1..MaxMappings

\* sizeof(T) of the mapping<T> instantiated, and the sizes buffers are made with.
ElemSizes == {1, 2}
MapSizes == {1, 2}

\* The access bits a caller maps with, and the values an m_access that was
\* never initialised may be read as.
Accesses == {{"GL_MAP_READ_BIT"}, {"GL_MAP_READ_BIT", "GL_MAP_WRITE_BIT"}}
IndeterminateAccess == {{}, {"GL_MAP_READ_BIT", "GL_MAP_WRITE_BIT"}}

NoMapBuf == [alive |-> FALSE, name |-> 0, base |-> 0, size |-> 0]
NoMapping ==
    [alive |-> FALSE, name |-> 0, base |-> 0, size |-> 0, elem |-> 1, data |-> 0, access |-> {}]
MapperIdle == [op |-> "none", status |-> "ok", on |-> 0, k |-> 0, const |-> FALSE, begin |-> 0, end |-> 0]
MapperDid(op, status, on) == [MapperIdle EXCEPT !.op = op, !.status = status, !.on = on]

NoMapper ==
    [bufs |-> [i \in MapBufs |-> NoMapBuf],
     m |-> [k \in MapSlots |-> NoMapping],
     gl |-> [names |-> [n \in MapBufs |-> NoStore], bound |-> 0],
     mapCalls |-> [n \in MapBufs |-> 0],
     unmapCalls |-> [n \in MapBufs |-> 0],
     last |-> MapperIdle]

MapperInit == mapper = NoMapper

MapperRunning == mapper.last.status # "assert"

\* A failed assert aborts the process.
MapperAbort(op) == mapper' = [NoMapper EXCEPT !.last = MapperDid(op, "assert", 0)]

\* name_traits<GL_BUFFER>::create: the driver's next unused name.
MapperFresh(g) == CHOOSE n \in MapBufs : ~g.names[n].gen /\ \A o \in MapBufs : o < n => g.names[o].gen

\* The driver counts a glUnmapBuffer call against the bound buffer object.
CountUnmap(calls, g) == IF g.bound # 0 THEN [calls EXCEPT ![g.bound] = @ + 1] ELSE calls

\* buffer::buffer(GLenum, size, usage): a new name, then set(size, usage).
MapperBuffer(i, size) ==
    /\ MapperRunning
    /\ ~mapper.bufs[i].alive
    /\ \A j \in MapBufs : j < i => mapper.bufs[j].alive
    /\ LET n == MapperFresh(mapper.gl)
           b == [alive |-> TRUE, name |-> n, base |-> 0, size |-> size]
           g == Bind(b, glGenBuffers(mapper.gl, n))
       IN  mapper' = [mapper EXCEPT !.bufs[i] = b,
                                    !.gl = IF size # 0 THEN glBufferData(g, size, <<>>) ELSE g,
                                    !.last = MapperDid("buffer", "ok", n)]
    /\ UNCHANGED <<lifeVars, bufVars, uniVars, linker, texs, fmts, traits>>

\* buffer::update(begin, end) with get_size() bytes v.
MapperUpdate(i, v) ==
    /\ MapperRunning
    /\ mapper.bufs[i].alive
    /\ ~mapper.gl.names[mapper.bufs[i].name].mapped
    /\ LET b == mapper.bufs[i]
       IN  IF ~(BufValid(b) /\ ~IsEmpty(b))
           THEN MapperAbort("update")
           ELSE mapper' = [mapper EXCEPT
                    !.gl = glBufferSubData(Bind(b, mapper.gl), b.base, b.size, [x \in 1..b.size |-> v]),
                    !.last = MapperDid("update", "ok", b.name)]
    /\ UNCHANGED <<lifeVars, bufVars, uniVars, linker, texs, fmts, traits>>

\* buffer::map<T>(access) into instance k: the private mapping constructor
\* copies the view, binds it and keeps what glMapBufferRange returns; a null
\* pointer is thrown as an exception, and unwinding resets the view copy.
MapperMap(k, i, elem, access) ==
    /\ MapperRunning
    /\ ~mapper.m[k].alive
    /\ mapper.bufs[i].alive
    /\ mapper.mapCalls[mapper.bufs[i].name] < MaxMaps
    /\ LET b == mapper.bufs[i]
           g == Bind(b, mapper.gl)
           p == glMapBufferRange(g, b.base, b.size)
       IN  IF ~(BufValid(b) /\ ~IsEmpty(b))
           THEN MapperAbort("map")
           ELSE IF ~(b.base % elem = 0 /\ b.size % elem = 0)
           THEN MapperAbort("map sizeof")
           ELSE IF ~p.ptr
           THEN mapper' = [mapper EXCEPT !.gl = ObjectDtor(ViewReset(b).name, g),
                                         !.last = MapperDid("map", "error", b.name)]
           ELSE mapper' = [mapper EXCEPT
                    !.m[k] = [alive |-> TRUE, name |-> b.name, base |-> b.base,
                              size |-> b.size, elem |-> elem, data |-> g.bound,
                              access |-> access],
                    !.gl = [g EXCEPT !.names[g.bound].mapped = TRUE],
                    !.mapCalls[g.bound] = @ + 1,
                    !.last = MapperDid("map", "ok", b.name)]
    /\ UNCHANGED <<lifeVars, bufVars, uniVars, linker, texs, fmts, traits>>

\* mapping(mapping&& other): basic_view has a copy constructor only, so the
\* view is copied; m_data is taken and other.m_data becomes null.  m_access
\* has no initialiser: `access` is what later reads of it yield.
MappingMoveCtor(k, j, access) ==
    /\ MapperRunning
    /\ ~mapper.m[k].alive
    /\ mapper.m[j].alive
    /\ mapper' = [mapper EXCEPT !.m[k] = [mapper.m[j] EXCEPT !.access = access],
                                !.m[j].data = 0,
                                !.last = MapperDid("mapping(mapping&&)", "ok", 0)]
    /\ UNCHANGED <<lifeVars, bufVars, uniVars, linker, texs, fmts, traits>>

\* The unmap a mapping holding a pointer issues: bind(), glUnmapBuffer.
MappingUnmap(mm, g) == IF mm.data # 0 THEN glUnmapBuffer(Bind(mm, g)) ELSE g

MappingUnmapCalls(mm, g, calls) == IF mm.data # 0 THEN CountUnmap(calls, Bind(mm, g)) ELSE calls

\* mapping::operator=(mapping&& other): `basic_view(std::move(other));` is a
\* temporary that is destroyed at once (its reset() keeps the name from
\* being deleted); the view members of *this stay as they were.  Then the
\* own pointer is unmapped and other's pointer is taken.
MappingMoveAssign(k, j) ==
    /\ MapperRunning
    /\ k # j
    /\ mapper.m[k].alive /\ mapper.m[j].alive
    /\ mapper.m[k].elem = mapper.m[j].elem
    /\ mapper' = [mapper EXCEPT
           !.gl = MappingUnmap(mapper.m[k], ObjectDtor(ViewReset(mapper.m[j]).name, mapper.gl)),
           !.unmapCalls = MappingUnmapCalls(mapper.m[k], mapper.gl, @),
           !.m[k].data = mapper.m[j].data,
           !.m[j].data = 0,
           !.last = MapperDid("operator=(mapping&&)", "ok", mapper.m[k].data)]
    /\ UNCHANGED <<lifeVars, bufVars, uniVars, linker, texs, fmts, traits>>

\* mapping::~mapping, then ~basic_view (reset) and ~object on name 0.
MappingDtor(k) ==
    /\ MapperRunning
    /\ mapper.m[k].alive
    /\ mapper' = [mapper EXCEPT
           !.gl = ObjectDtor(ViewReset(mapper.m[k]).name, MappingUnmap(mapper.m[k], mapper.gl)),
           !.unmapCalls = MappingUnmapCalls(mapper.m[k], mapper.gl, @),
           !.m[k] = NoMapping,
           !.last = MapperDid("~mapping", "ok", mapper.m[k].data)]
    /\ UNCHANGED <<lifeVars, bufVars, uniVars, linker, texs, fmts, traits>>

\* mapping::is_valid
MappingIsValid(mm) == BufValid(mm) /\ mm.data # 0

\* mapping::get_size: elements
MappingGetSize(mm) == mm.size \div mm.elem

\* mapping::begin / end, const and mutable, as element offsets from m_data.
MappingBeginConst(mm) == 0
MappingEndConst(mm) == 0
MappingBegin(mm) == 0
MappingEnd(mm) == 0 + MappingGetSize(mm)

\* A caller takes begin() and end() of instance k, through a const
\* reference or not; each asserts is_valid() and its access bit.
MappingRange(k, c) ==
    /\ MapperRunning
    /\ mapper.m[k].alive
    /\ IF ~MappingIsValid(mapper.m[k])
       THEN MapperAbort("begin end")
       ELSE IF (IF c THEN "GL_MAP_READ_BIT" ELSE "GL_MAP_WRITE_BIT") \notin mapper.m[k].access
       THEN MapperAbort("begin end access")
       ELSE mapper' = [mapper EXCEPT !.last =
               [MapperDid("begin end", "ok", 0) EXCEPT
                   !.k = k, !.const = c,
                   !.begin = IF c THEN MappingBeginConst(mapper.m[k]) ELSE MappingBegin(mapper.m[k]),
                   !.end = IF c THEN MappingEndConst(mapper.m[k]) ELSE MappingEnd(mapper.m[k])]]
    /\ UNCHANGED <<lifeVars, bufVars, uniVars, linker, texs, fmts, traits>>

\* mapping::flush: glFlushMappedBufferRange on the bound buffer object.
MappingFlush(k) ==
    /\ MapperRunning
    /\ mapper.m[k].alive
    /\ IF ~MappingIsValid(mapper.m[k])
       THEN MapperAbort("flush")
       ELSE mapper' = [mapper EXCEPT !.gl = Bind(mapper.m[k], @),
                                     !.last = MapperDid("flush", "ok", mapper.m[k].data)]
    /\ UNCHANGED <<lifeVars, bufVars, uniVars, linker, texs, fmts, traits>>

MapperNext ==
    \/ \E i \in MapBufs, size \in MapSizes : MapperBuffer(i, size)
    \/ \E i \in MapBufs, v \in Fill : MapperUpdate(i, v)
    \/ \E k \in MapSlots, i \in MapBufs, elem \in ElemSizes, access \in Accesses :
          MapperMap(k, i, elem, access)
    \/ \E k \in MapSlots, j \in MapSlots, access \in IndeterminateAccess : MappingMoveCtor(k, j, access)
    \/ \E k \in MapSlots, j \in MapSlots : MappingMoveAssign(k, j)
    \/ \E k \in MapSlots : MappingDtor(k)
    \/ \E k \in MapSlots, c \in BOOLEAN : MappingRange(k, c)
    \/ \E k \in MapSlots : MappingFlush(k)

MapperStart ==
    /\ MapperInit /\ LifeInit /\ LifeIdleBuf /\ UniIdle
    /\ linker = Idle /\ texs = Idle /\ fmts = Idle /\ traits = Idle

SpecMap == MapperStart /\ [][MapperNext]_vars

(***************************************************************************)
(* Claims about mappings.                                                  *)
(***************************************************************************)
\* The mapping instances holding a pointer into buffer object n.
Holders(n) == {k \in MapSlots : mapper.m[k].alive /\ mapper.m[k].data = n}

C22_State ==
    \A n \in MapBufs :
        /\ mapper.gl.names[n].mapped <=> Holders(n) # {}
        /\ mapper.mapCalls[n] - mapper.unmapCalls[n] = Cardinality(Holders(n))

C22_Step ==
    /\ (mapper'.last.op = "map" /\ mapper'.last.status = "error") =>
          /\ mapper'.m = mapper.m
          /\ mapper'.unmapCalls = mapper.unmapCalls
          /\ mapper'.mapCalls = mapper.mapCalls
    /\ \A k \in MapSlots :
          (mapper.m[k].alive /\ mapper.m[k].data = 0 /\ ~mapper'.m[k].alive
              /\ mapper'.last.op = "~mapping") =>
             mapper'.unmapCalls = mapper.unmapCalls

\* C22: under any sequence of map, mapping move construction, move
\* assignment and destruction, a map for which the driver returns null
\* throws and leaves no mapping and no unmap call; every pointer a map
\* returned is held by exactly one mapping until exactly one glUnmapBuffer
\* is issued on the buffer object that was mapped, when its holder is
\* destroyed or overwritten; a moved-from mapping issues no unmap.
C22_MapUnmapPaired == [](MapperRunning => C22_State) /\ [][C22_Step]_vars

\* C27: for every valid mapping<T>, end() - begin() is get_size(), the
\* view's byte size divided by sizeof(T), and begin() is the mapped
\* pointer, for the const pair and for the mutable pair.
C27_BeginEnd ==
    (mapper.last.op = "begin end" /\ mapper.last.status = "ok") =>
        /\ mapper.last.begin = 0
        /\ mapper.last.end - mapper.last.begin
              = mapper.m[mapper.last.k].size \div mapper.m[mapper.last.k].elem

\* C30: every buffer operation that touches driver storage (here update,
\* map, flush and the unmap of a mapping's destructor and move assignment)
\* binds its own handle first, so with two buffers on one target it changes
\* only the buffer object it was invoked on -- for a mapping, the buffer
\* object its pointer maps -- whatever was bound before.
C30_OwnStorageOnly ==
    [][(mapper'.last.status = "ok" /\ mapper'.last.op \notin {"none", "buffer"}) =>
          \A n \in MapBufs \ {mapper'.last.on} :
              /\ mapper'.gl.names[n] = mapper.gl.names[n]
              /\ mapper'.unmapCalls[n] = mapper.unmapCalls[n]]_vars

====
